---- MODULE Spec2Model ----
(***************************************************************************)
(* Volume-Price-Analysis signal pipeline (price-volume-lab).               *)
(*                                                                         *)
(* The module models these parts of the repository, each under its own     *)
(* specification:                                                          *)
(*   - SetupComposer (src/vpa_core/setup_composer.py): SpecComposer        *)
(*   - apply_gates   (src/vpa_core/context_gates.py):  SpecGates           *)
(*   - evaluate_risk (src/vpa_core/risk_engine.py):    SpecRisk            *)
(*   - run_backtest  (src/backtest/runner.py) with run_pipeline:           *)
(*                                                     Spec, SpecLookahead *)
(*   - SafetyGuard   (src/cli/safety.py):              SpecSafety          *)
(*   - the live paper cycle (src/cli/scheduler.py):    SpecLive            *)
(*   - run_pipeline  (src/vpa_core/pipeline.py), replayed twice and called *)
(*     with stub contexts:                     SpecReplay, SpecPipeline    *)
(*   - the context engine (src/vpa_core/context_engine.py) feeding         *)
(*     run_pipeline on flat and ordinary histories:    SpecContext         *)
(*   - PaperExecutor (src/execution/paper_executor.py): SpecLedger         *)
(*                                                                         *)
(* Numbers.  Python floats are modelled as exact rationals held in scaled  *)
(* integers; every scale is named where it is used.  The timeframe label   *)
(* tf is one constant string in every run and is left out of the records.  *)
(***************************************************************************)
EXTENDS Integers, Sequences, FiniteSets, TLC

\* Python's None for an optional number (prices and sizes are >= 0).
NoneVal == -1
\* Python's None where the value is an object
NoneRec == [none |-> TRUE]

(***************************************************************************)
(* Bounds of the model.                                                    *)
(***************************************************************************)
\* process_signals is called with bar_index in 0..MaxBarIndex
MaxBarIndex == 3
\* longest signal list handed to process_signals
MaxSignals == 2
\* setup.window_X is drawn from 1..MaxWindowX
MaxWindowX == 2
\* longest signal list handed to apply_gates
MaxGateSignals == 2
\* most setups completing on one bar (the composer has three definitions)
MaxMatches == 2
\* submissions made to one PaperExecutor
MaxLedgerCalls == 3
\* longest bar history of SpecContext
MaxContextBars == 3
\* longest bar history replayed by run_backtest
MaxBars == 5
\* longest bar history of the lookahead comparison
MaxLookaheadBars == 5
\* number of record_pnl and check calls made on one SafetyGuard
MaxGuardCalls == 4
\* number of cycles of one live session
MaxLiveCycles == 4
\* longest bar history replayed twice
MaxReplayBars == 4
\* longest bar history of one run_pipeline session
MaxPipeBars == 3
BarsPerDay == 2

(***************************************************************************)
(* Generic sequence helpers.                                               *)
(***************************************************************************)
\* all sequences over S of length 0..n
SeqsUpTo(S, n) == UNION {[1..k -> S] : k \in 0..n}

\* Python any(P(x) for x in s)
AnyOf(s, P(_)) == \E k \in 1..Len(s) : P(s[k])

(***************************************************************************)
(* contracts.py: SignalEvent.  The fields the later stages read:           *)
(* id, signal_class, direction_bias, priority, requires_context_gate, ts   *)
(* and the evidence entries bar_low and bar_high (NoneVal when absent).    *)
(***************************************************************************)
SignalClass == {"VALIDATION", "ANOMALY", "STRENGTH", "WEAKNESS",
                "AVOIDANCE", "CONFIRMATION", "TEST"}

SignalEvent(id, cls, bias, prio, gate, ts, lo, hi) ==
    [id |-> id, signal_class |-> cls, direction_bias |-> bias,
     priority |-> prio, requires_context_gate |-> gate, ts |-> ts,
     bar_low |-> lo, bar_high |-> hi]

\* The signal each detector of rule_engine.py builds (class, bias, priority,
\* requires_context_gate), with timestamp ts and evidence lo/hi.
RuleSignal(id, ts, lo, hi) ==
    CASE id = "VAL-1"         -> SignalEvent(id, "VALIDATION", "BULLISH", 1, FALSE, ts, lo, hi)
      [] id = "ANOM-1"        -> SignalEvent(id, "ANOMALY", "BEARISH_OR_WAIT", 2, TRUE, ts, lo, hi)
      [] id = "ANOM-2"        -> SignalEvent(id, "ANOMALY", "BEARISH_OR_WAIT", 2, TRUE, ts, lo, hi)
      [] id = "STR-1"         -> SignalEvent(id, "STRENGTH", "BULLISH", 2, TRUE, ts, lo, hi)
      [] id = "WEAK-1"        -> SignalEvent(id, "WEAKNESS", "BEARISH", 2, TRUE, ts, lo, hi)
      [] id = "WEAK-2"        -> SignalEvent(id, "WEAKNESS", "BEARISH", 1, TRUE, ts, lo, hi)
      [] id = "CLIMAX-SELL-1" -> SignalEvent(id, "WEAKNESS", "BEARISH", 1, TRUE, ts, lo, hi)
      [] id = "CONF-1"        -> SignalEvent(id, "CONFIRMATION", "BULLISH", 3, FALSE, ts, lo, hi)
      [] id = "AVOID-NEWS-1"  -> SignalEvent(id, "AVOIDANCE", "NEUTRAL", 0, FALSE, ts, lo, hi)
      [] id = "TEST-SUP-1"    -> SignalEvent(id, "TEST", "BULLISH", 1, TRUE, ts, lo, hi)
      [] id = "TEST-SUP-2"    -> SignalEvent(id, "TEST", "BEARISH_OR_WAIT", 1, TRUE, ts, lo, hi)
      [] id = "TEST-DEM-1"    -> SignalEvent(id, "TEST", "BEARISH", 1, TRUE, ts, lo, hi)
      [] id = "TREND-VAL-1"   -> SignalEvent(id, "VALIDATION", "BULLISH", 2, FALSE, ts, lo, hi)
      [] id = "TREND-ANOM-1"  -> SignalEvent(id, "ANOMALY", "BEARISH_OR_WAIT", 2, TRUE, ts, lo, hi)

(***************************************************************************)
(* setup_composer.py                                                       *)
(***************************************************************************)
\* _SETUP_DEFS, in dict (insertion) order
SetupOrder == <<"ENTRY-LONG-1", "ENTRY-LONG-2", "ENTRY-SHORT-1">>

SETUP_DEFS ==
    [s \in {"ENTRY-LONG-1", "ENTRY-LONG-2", "ENTRY-SHORT-1"} |->
        CASE s = "ENTRY-LONG-1"  -> [trigger |-> "TEST-SUP-1", completers |-> {"VAL-1"}, direction |-> "LONG"]
          [] s = "ENTRY-LONG-2"  -> [trigger |-> "STR-1", completers |-> {"CONF-1"}, direction |-> "LONG"]
          [] s = "ENTRY-SHORT-1" -> [trigger |-> "CLIMAX-SELL-1", completers |-> {"WEAK-1", "WEAK-2"}, direction |-> "SHORT"]]

HARD_AVOIDANCE == {"AVOID-NEWS-1"}

SetupCandidate(setup_id, direction, state, sigs, started, expires) ==
    [setup_id |-> setup_id, direction |-> direction, state |-> state,
     signals |-> sigs, started_at_bar |-> started, expires_at_bar |-> expires]

SetupMatch(setup_id, direction, sigs, bar) ==
    [setup_id |-> setup_id, direction |-> direction, signals |-> sigs,
     matched_at_bar |-> bar]

\* variant: the window closes one bar early
IsExpired_early(c, bar) == c.state = "CANDIDATE" /\ bar >= c.expires_at_bar

\* the expiry test of _expire_candidates
IsExpired(c, bar) == c.state = "CANDIDATE" /\ bar > c.expires_at_bar

\* variant: the expiry mark is never set, only the filter runs
expire_candidates_never(cands, bar) ==
    LET Keep(c) == c.state = "CANDIDATE"
    IN  SelectSeq(cands, Keep)

\* _expire_candidates: mark, then keep the CANDIDATE-state entries only
expire_candidates(cands, bar) ==
    LET marked == [k \in 1..Len(cands) |->
                     IF IsExpired(cands[k], bar)
                     THEN [cands[k] EXCEPT !.state = "EXPIRED"]
                     ELSE cands[k]]
        Keep(c) == c.state = "CANDIDATE"
    IN  SelectSeq(marked, Keep)

\* variant: the priority test is strict and avoidance is ignored
should_invalidate_longs_strict(signals) ==
    LET Hit(sig) == sig.signal_class = "ANOMALY" /\ sig.priority > 2
    IN  AnyOf(signals, Hit)

should_invalidate_longs(signals) ==
    LET Hit(sig) == \/ (sig.signal_class = "ANOMALY" /\ sig.priority >= 2)
                    \/ (sig.signal_class = "AVOIDANCE" /\ sig.id \in HARD_AVOIDANCE)
    IN  AnyOf(signals, Hit)

should_invalidate_shorts(signals) ==
    LET Hit(sig) == \/ sig.signal_class = "VALIDATION"
                    \/ sig.signal_class = "STRENGTH"
    IN  AnyOf(signals, Hit)

\* _invalidate_candidates
invalidate_candidates(cands, signals) ==
    LET marked == [k \in 1..Len(cands) |->
                     IF cands[k].state # "CANDIDATE" THEN cands[k]
                     ELSE IF cands[k].direction = "LONG" /\ should_invalidate_longs(signals)
                          THEN [cands[k] EXCEPT !.state = "INVALIDATED"]
                     ELSE IF cands[k].direction = "SHORT" /\ should_invalidate_shorts(signals)
                          THEN [cands[k] EXCEPT !.state = "INVALIDATED"]
                     ELSE cands[k]]
        Keep(c) == c.state = "CANDIDATE"
    IN  SelectSeq(marked, Keep)

\* index of the first signal whose id is a completer of setup_id, 0 if none
FirstCompleter(setup_id, signals) ==
    LET hits == {k \in 1..Len(signals) : signals[k].id \in SETUP_DEFS[setup_id].completers}
    IN  IF hits = {} THEN 0 ELSE CHOOSE k \in hits : \A j \in hits : k <= j

\* does _check_completions complete candidate c with these signals?
Completes(c, signals) ==
    c.state = "CANDIDATE" /\ FirstCompleter(c.setup_id, signals) # 0

\* variant: a completed candidate is left in state CANDIDATE
completed_candidates_unmarked(cands, signals) ==
    [k \in 1..Len(cands) |->
        IF Completes(cands[k], signals)
        THEN [cands[k] EXCEPT
                !.signals = Append(@, signals[FirstCompleter(cands[k].setup_id, signals)])]
        ELSE cands[k]]

\* _check_completions: the candidates after the loop (completed ones keep
\* their place in the list, in state READY, with the completer appended)
completed_candidates(cands, signals) ==
    [k \in 1..Len(cands) |->
        IF Completes(cands[k], signals)
        THEN [cands[k] EXCEPT
                !.signals = Append(@, signals[FirstCompleter(cands[k].setup_id, signals)]),
                !.state = "READY"]
        ELSE cands[k]]

\* variant: every completer of the bar is appended to the chain
RECURSIVE check_completions_all(_, _, _)
check_completions_all(cands, signals, bar) ==
    IF cands = <<>> THEN <<>>
    ELSE LET c == Head(cands)
             rest == check_completions_all(Tail(cands), signals, bar)
             IsCompleter(sig) == sig.id \in SETUP_DEFS[c.setup_id].completers
         IN  IF c.state = "CANDIDATE" /\ AnyOf(signals, IsCompleter)
             THEN <<SetupMatch(c.setup_id, c.direction,
                               c.signals \o SelectSeq(signals, IsCompleter), bar)>> \o rest
             ELSE rest

\* _check_completions: the returned matches, in candidate order
RECURSIVE check_completions(_, _, _)
check_completions(cands, signals, bar) ==
    IF cands = <<>> THEN <<>>
    ELSE LET c == Head(cands)
             rest == check_completions(Tail(cands), signals, bar)
         IN  IF Completes(c, signals)
             THEN <<SetupMatch(c.setup_id, c.direction,
                               Append(c.signals, signals[FirstCompleter(c.setup_id, signals)]),
                               bar)>> \o rest
             ELSE rest

\* variant: the duplicate test counts a candidate of the setup in any state
already_tracking_any_state(cands, setup_id) ==
    LET Hit(c) == c.setup_id = setup_id
    IN  AnyOf(cands, Hit)

\* variant: the duplicate test looks at the wrong state
already_tracking_ready(cands, setup_id) ==
    LET Hit(c) == c.setup_id = setup_id /\ c.state = "READY"
    IN  AnyOf(cands, Hit)

already_tracking(cands, setup_id) ==
    LET Hit(c) == c.setup_id = setup_id /\ c.state = "CANDIDATE"
    IN  AnyOf(cands, Hit)

\* inner loop of _open_new_candidates: one signal against the setups k..3
RECURSIVE open_for_signal(_, _, _, _, _)
open_for_signal(cands, sig, bar, window_x, k) ==
    IF k > Len(SetupOrder) THEN cands
    ELSE LET setup_id == SetupOrder[k]
             defn == SETUP_DEFS[setup_id]
             next == IF sig.id = defn.trigger /\ ~already_tracking(cands, setup_id)
                     THEN Append(cands, SetupCandidate(setup_id, defn.direction,
                                    "CANDIDATE", <<sig>>, bar, bar + window_x))
                     ELSE cands
         IN  open_for_signal(next, sig, bar, window_x, k + 1)

\* _open_new_candidates: outer loop over the signals
RECURSIVE open_new_candidates(_, _, _, _)
open_new_candidates(cands, signals, bar, window_x) ==
    IF signals = <<>> THEN cands
    ELSE open_new_candidates(open_for_signal(cands, Head(signals), bar, window_x, 1),
                             Tail(signals), bar, window_x)

\* variant: completions are checked before the bar's invalidating signals are applied
process_signals_complete_first(cands, signals, bar, window_x) ==
    LET c1 == expire_candidates(cands, bar)
        ms == check_completions(c1, signals, bar)
        c2 == completed_candidates(c1, signals)
        c3 == invalidate_candidates(c2, signals)
        c4 == open_new_candidates(c3, signals, bar, window_x)
    IN  [candidates |-> c4, matches |-> ms]

\* variant: the bar's triggers open their candidates before completions are checked
process_signals_open_first(cands, signals, bar, window_x) ==
    LET c1 == expire_candidates(cands, bar)
        c2 == invalidate_candidates(c1, signals)
        c3 == open_new_candidates(c2, signals, bar, window_x)
        ms == check_completions(c3, signals, bar)
        c4 == completed_candidates(c3, signals)
    IN  [candidates |-> c4, matches |-> ms]

\* process_signals: expire, invalidate, complete, open.  Returns the new
\* candidate list and the matches.
process_signals(cands, signals, bar, window_x) ==
    LET c1 == expire_candidates(cands, bar)
        c2 == invalidate_candidates(c1, signals)
        ms == check_completions(c2, signals, bar)
        c3 == completed_candidates(c2, signals)
        c4 == open_new_candidates(c3, signals, bar, window_x)
    IN  [candidates |-> c4, matches |-> ms]

\* the active_candidates property
active_candidates(cands) ==
    Cardinality({k \in 1..Len(cands) : cands[k].state = "CANDIDATE"})

(***************************************************************************)
(* contracts.py: ContextSnapshot (congestion is kept as its active flag;   *)
(* range_high / range_low are informational and read by no stage).         *)
(***************************************************************************)
ContextSnapshot(trend, strength, location, congestion_active, alignment, volume_trend) ==
    [trend |-> trend, trend_strength |-> strength, trend_location |-> location,
     congestion_active |-> congestion_active, dominant_alignment |-> alignment,
     volume_trend |-> volume_trend]

(***************************************************************************)
(* daily_context.py                                                        *)
(***************************************************************************)
\* signal_direction_bias.upper().split("_")[0]
LeadingWord(bias) ==
    CASE bias = "BULLISH" -> "BULLISH"
      [] bias = "BEARISH" -> "BEARISH"
      [] bias = "BEARISH_OR_WAIT" -> "BEARISH"
      [] OTHER -> bias

\* variant: the alignment follows the daily trend alone, whatever the bias
compute_dominant_alignment_biasless(daily_context, bias) ==
    IF daily_context.trend \in {"UNKNOWN", "RANGE"} THEN "UNKNOWN"
    ELSE IF daily_context.trend = "UP" THEN "WITH"
    ELSE "AGAINST"

\* compute_dominant_alignment(daily_context, signal_direction_bias)
compute_dominant_alignment(daily_context, bias) ==
    IF daily_context.trend \in {"UNKNOWN", "RANGE"} THEN "UNKNOWN"
    ELSE IF LeadingWord(bias) \notin {"BULLISH", "BEARISH"} THEN "UNKNOWN"
    ELSE IF LeadingWord(bias) = "BULLISH" /\ daily_context.trend = "UP" THEN "WITH"
    ELSE IF LeadingWord(bias) = "BEARISH" /\ daily_context.trend = "DOWN" THEN "WITH"
    ELSE IF LeadingWord(bias) = "BULLISH" /\ daily_context.trend = "DOWN" THEN "AGAINST"
    ELSE IF LeadingWord(bias) = "BEARISH" /\ daily_context.trend = "UP" THEN "AGAINST"
    ELSE "UNKNOWN"

\* enrich_context_with_daily: the copy drops volume_trend to its default
enrich_context_with_daily(intraday_context, daily_context, bias) ==
    ContextSnapshot(intraday_context.trend, intraday_context.trend_strength,
                    intraday_context.trend_location, intraday_context.congestion_active,
                    compute_dominant_alignment(daily_context, bias), "UNKNOWN")

(***************************************************************************)
(* context_gates.py.  config.gates is the record                           *)
(* [ctx1_trend_location_required, ctx2_dominant_alignment_policy,          *)
(*  ctx3_congestion_awareness_required].  A check returns the gate's name  *)
(* (the prefix of the reason string) or "None".                            *)
(***************************************************************************)
\* variant: CTX-1 forgets the requires_context_gate test
check_ctx_1_all(signal, context, gates) ==
    IF ~gates.ctx1_trend_location_required THEN "None"
    ELSE IF context.trend_location = "UNKNOWN" THEN "CTX-1"
    ELSE "None"

check_ctx_1(signal, context, gates) ==
    IF ~gates.ctx1_trend_location_required THEN "None"
    ELSE IF ~signal.requires_context_gate THEN "None"
    ELSE IF context.trend_location = "UNKNOWN" THEN "CTX-1"
    ELSE "None"

check_ctx_2(signal, context, gates) ==
    IF gates.ctx2_dominant_alignment_policy # "DISALLOW" THEN "None"
    ELSE IF ~signal.requires_context_gate THEN "None"
    ELSE IF context.dominant_alignment = "AGAINST" THEN "CTX-2"
    ELSE "None"

check_ctx_3(signal, context, gates) ==
    IF ~gates.ctx3_congestion_awareness_required THEN "None"
    ELSE IF ~signal.requires_context_gate THEN "None"
    ELSE IF ~context.congestion_active THEN "None"
    ELSE IF signal.signal_class = "ANOMALY" THEN "CTX-3"
    ELSE "None"

\* variant: the checks run in the order CTX-3, CTX-2, CTX-1
block_reason_reversed(signal, context, gates) ==
    IF check_ctx_3(signal, context, gates) # "None" THEN check_ctx_3(signal, context, gates)
    ELSE IF check_ctx_2(signal, context, gates) # "None" THEN check_ctx_2(signal, context, gates)
    ELSE check_ctx_1(signal, context, gates)

\* the inner loop of apply_gates: the first check that returns a reason
block_reason(signal, context, gates) ==
    IF check_ctx_1(signal, context, gates) # "None" THEN check_ctx_1(signal, context, gates)
    ELSE IF check_ctx_2(signal, context, gates) # "None" THEN check_ctx_2(signal, context, gates)
    ELSE check_ctx_3(signal, context, gates)

\* The context one signal is judged by when apply_gates is given a daily
\* snapshot (NoneRec = not supplied): the per-signal alignment of section 4.5.
GateContext(signal, context, daily_context) ==
    IF daily_context = NoneRec THEN context
    ELSE enrich_context_with_daily(context, daily_context, signal.direction_bias)

\* f"{signal.id}@{signal.ts.isoformat()}"
signal_key(signal) == <<signal.id, signal.ts>>

\* apply_gates: the loop over the signals, accumulating the three outputs
RECURSIVE gates_loop(_, _, _, _, _)
gates_loop(signals, context, gates, daily_context, acc) ==
    IF signals = <<>> THEN acc
    ELSE LET signal == Head(signals)
             reason == block_reason(signal, GateContext(signal, context, daily_context), gates)
             next == IF reason # "None"
                     THEN [actionable |-> acc.actionable,
                           blocked |-> Append(acc.blocked, signal),
                           block_reasons |-> (signal_key(signal) :> reason) @@ acc.block_reasons]
                     ELSE [acc EXCEPT !.actionable = Append(@, signal)]
         IN  gates_loop(Tail(signals), context, gates, daily_context, next)

GateResult(actionable, blocked, block_reasons) ==
    [actionable |-> actionable, blocked |-> blocked, block_reasons |-> block_reasons]

\* variant: the blocked signals are dropped instead of being returned
apply_gates_silent(signals, context, gates, daily_context) ==
    [gates_loop(signals, context, gates, daily_context, GateResult(<<>>, <<>>, <<>>))
        EXCEPT !.blocked = <<>>]

apply_gates(signals, context, gates, daily_context) ==
    gates_loop(signals, context, gates, daily_context, GateResult(<<>>, <<>>, <<>>))

(***************************************************************************)
(* risk_engine.py.  Money is in cents.  Percentages are integers:          *)
(* risk_pct_per_trade and daily_loss_limit_pct in 1/10000 (0.005 = 50),    *)
(* countertrend_multiplier in 1/100 (0.5 = 50), atr.stop_multiplier in     *)
(* 1/10 (1.5 = 15).  The products below are exact on the values the        *)
(* specifications draw (whole-dollar prices, even ATR values).             *)
(***************************************************************************)
AccountState(equity, open_position_count, daily_realized_pnl) ==
    [equity |-> equity, open_position_count |-> open_position_count,
     daily_realized_pnl |-> daily_realized_pnl]

Abs(x) == IF x < 0 THEN -x ELSE x

Max(a, b) == IF a >= b THEN a ELSE b

\* _compute_stop_bar_based
compute_stop_bar_based(match, current_price) ==
    IF match.signals # <<>>
    THEN LET trigger == match.signals[1]
         IN  IF match.direction = "SHORT"
             THEN IF trigger.bar_high # NoneVal THEN trigger.bar_high
                  ELSE (current_price * 102) \div 100
             ELSE IF trigger.bar_low # NoneVal THEN trigger.bar_low
                  ELSE (current_price * 98) \div 100
    ELSE (current_price * 98) \div 100

\* _compute_stop_atr
compute_stop_atr(direction, current_price, atr_value, multiplier) ==
    LET distance == (atr_value * multiplier) \div 10
    IN  IF direction = "SHORT" THEN current_price + distance
        ELSE current_price - distance

\* _compute_stop: (stop_price, method)
compute_stop(match, current_price, config, atr_value) ==
    IF config.atr_enabled /\ atr_value > 0
    THEN [stop |-> compute_stop_atr(match.direction, current_price, atr_value,
                                    config.atr_stop_multiplier),
          method |-> "ATR"]
    ELSE [stop |-> compute_stop_bar_based(match, current_price), method |-> "BAR"]

\* _compute_size: math.floor is \div, which rounds toward minus infinity
compute_size(equity, risk_pct, entry_price, stop_price) ==
    LET risk_per_share == Abs(entry_price - stop_price)
    IN  IF risk_per_share <= 0 THEN 0
        ELSE Max(1, (equity * risk_pct) \div (10000 * risk_per_share))

TradeIntent(match, status, stop, risk_pct, size, rationale, reject_reason) ==
    [intent_id |-> <<match.setup_id, match.matched_at_bar>>,
     direction |-> match.direction, setup |-> match.setup_id, status |-> status,
     stop |-> stop, risk_pct |-> risk_pct, size |-> size,
     rationale |-> rationale, reject_reason |-> reject_reason]

\* variant: the rejected intent loses the rationale chain
reject_bare(match, reason, rationale) ==
    TradeIntent(match, "REJECTED", 0, 0, 0, <<>>, reason)

\* _reject
reject(match, reason, rationale) ==
    TradeIntent(match, "REJECTED", 0, 0, 0, rationale, reason)

\* rationale = [sig.id for sig in match.signals]
signal_ids(signals) == [k \in 1..Len(signals) |-> signals[k].id]

\* variant: the position limit is tested with > instead of >=
max_positions_reached_gt(account, config) ==
    account.open_position_count > config.max_concurrent_positions

max_positions_reached(account, config) ==
    account.open_position_count >= config.max_concurrent_positions

\* f"{pct:.1%}": the percentage with one decimal; pct is in 1/10000 and the
\* configurations drawn are whole tenths of a percent, where the rounding of
\* the float plays no part
format_pct1(pct) ==
    LET tenths == (pct + 5) \div 10
    IN  ToString(tenths \div 10) \o "." \o ToString(tenths % 10) \o "%"

\* the reason strings of the three rejects
positions_reason(config) ==
    "Max concurrent positions (" \o ToString(config.max_concurrent_positions) \o ") reached"

daily_loss_reason(config) ==
    "Daily loss limit (" \o format_pct1(config.daily_loss_limit_pct) \o ") reached"

size_zero_reason == "Computed size is zero (stop too close or equity too low)"

\* variant: the limit itself is not yet a breach
daily_loss_reached_strict(account, config) ==
    /\ config.daily_loss_limit_pct # NoneVal
    /\ account.daily_realized_pnl * 10000 < -(account.equity * config.daily_loss_limit_pct)

\* account.daily_realized_pnl <= -(account.equity * daily_loss_limit_pct)
daily_loss_reached(account, config) ==
    /\ config.daily_loss_limit_pct # NoneVal
    /\ account.daily_realized_pnl * 10000 <= -(account.equity * config.daily_loss_limit_pct)

\* variant: an AGAINST alignment reduces the risk under every policy
reduced_risk_pct_any_policy(context, config) ==
    IF context.dominant_alignment = "AGAINST"
    THEN (config.risk_pct_per_trade * config.countertrend_multiplier) \div 100
    ELSE config.risk_pct_per_trade

\* the risk percentage after the CTX-2 REDUCE_RISK policy
reduced_risk_pct(context, config) ==
    IF config.ctx2_dominant_alignment_policy = "REDUCE_RISK"
       /\ context.dominant_alignment = "AGAINST"
    THEN (config.risk_pct_per_trade * config.countertrend_multiplier) \div 100
    ELSE config.risk_pct_per_trade

\* the rationale entries appended before sizing
risk_rationale(match, context, config, method) ==
    signal_ids(match.signals)
    \o (IF method = "ATR" THEN <<"stop:ATR">> ELSE <<>>)
    \o (IF config.ctx2_dominant_alignment_policy = "REDUCE_RISK"
        THEN IF context.dominant_alignment = "AGAINST" THEN <<"CTX-2:AGAINST(risk_reduced)">>
             ELSE IF context.dominant_alignment = "WITH" THEN <<"CTX-2:WITH">>
             ELSE <<>>
        ELSE <<>>)

evaluate_risk(match, current_price, account, context, config, atr_value) ==
    IF max_positions_reached(account, config)
    THEN reject(match, positions_reason(config), signal_ids(match.signals))
    ELSE IF daily_loss_reached(account, config)
    THEN reject(match, daily_loss_reason(config), signal_ids(match.signals))
    ELSE LET s == compute_stop(match, current_price, config, atr_value)
             risk_pct == reduced_risk_pct(context, config)
             rationale == risk_rationale(match, context, config, s.method)
             size == compute_size(account.equity, risk_pct, current_price, s.stop)
         IN  IF size <= 0
             THEN reject(match, size_zero_reason, rationale)
             ELSE TradeIntent(match, "READY", s.stop, risk_pct, size, rationale, "None")

\* pipeline.py: intents = [evaluate_risk(m, current_price, ...) for m in matches]
evaluate_matches(ms, current_price, account, context, config, atr_value) ==
    [k \in 1..Len(ms) |->
        evaluate_risk(ms[k], current_price, account, context, config, atr_value)]

(***************************************************************************)
(* contracts.py: Bar.  Prices are in cents, volume in shares, timestamp is *)
(* the bar's ordinal.  Ratios and averages are never rounded: an average   *)
(* is the pair [num, den] and every threshold test is cross-multiplied.    *)
(* Thresholds are in 1/100 (0.8 = 80).                                     *)
(***************************************************************************)
Bar(ts, open, high, low, close, volume) ==
    [timestamp |-> ts, open |-> open, high |-> high, low |-> low, close |-> close,
     volume |-> volume]

Min(a, b) == IF a <= b THEN a ELSE b

RECURSIVE SumSeq(_)
SumSeq(s) == IF s = <<>> THEN 0 ELSE Head(s) + SumSeq(Tail(s))

RECURSIVE MaxSeq(_)
MaxSeq(s) == IF Len(s) = 1 THEN s[1] ELSE Max(Head(s), MaxSeq(Tail(s)))

RECURSIVE MinSeq(_)
MinSeq(s) == IF Len(s) = 1 THEN s[1] ELSE Min(Head(s), MinSeq(Tail(s)))

\* bars[-n:] if len(bars) >= n else bars
LastN(bars, n) ==
    IF Len(bars) >= n THEN SubSeq(bars, Len(bars) - n + 1, Len(bars)) ELSE bars

(***************************************************************************)
(* features.py, relative_volume.py                                         *)
(***************************************************************************)
spread(bar) == Abs(bar.close - bar.open)

bar_range(bar) == bar.high - bar.low

upper_wick(bar) == bar.high - Max(bar.open, bar.close)

lower_wick(bar) == Min(bar.open, bar.close) - bar.low

\* bars[-(lookback + 1) : -1] if len(bars) > lookback + 1 else bars[:-1]
baseline_window(bars, lookback) ==
    IF Len(bars) > lookback + 1
    THEN SubSeq(bars, Len(bars) - lookback, Len(bars) - 1)
    ELSE SubSeq(bars, 1, Len(bars) - 1)

\* average_volume: 0.0 is [num |-> 0, den |-> 1]
average_volume(bars, lookback) ==
    IF lookback <= 0 \/ Len(bars) < 2 THEN [num |-> 0, den |-> 1]
    ELSE LET window == baseline_window(bars, lookback)
         IN  IF window = <<>> THEN [num |-> bars[Len(bars)].volume, den |-> 1]
             ELSE [num |-> SumSeq([k \in 1..Len(window) |-> window[k].volume]),
                   den |-> Len(window)]

\* average_spread
average_spread(bars, lookback) ==
    IF lookback <= 0 \/ Len(bars) < 2 THEN [num |-> 0, den |-> 1]
    ELSE LET window == baseline_window(bars, lookback)
         IN  IF window = <<>> THEN [num |-> spread(bars[Len(bars)]), den |-> 1]
             ELSE [num |-> SumSeq([k \in 1..Len(window) |-> spread(window[k])]),
                   den |-> Len(window)]

\* vol_rel / spread_rel: value / baseline_avg, 0.0 if the baseline is not positive
rel(value, avg) ==
    IF avg.num <= 0 THEN [num |-> 0, den |-> 1]
    ELSE [num |-> value * avg.den, den |-> avg.num]

\* r > threshold / 100 and r < threshold / 100 for a ratio r with den > 0
RatioGt(r, threshold) == r.num * 100 > threshold * r.den

RatioLt(r, threshold) == r.num * 100 < threshold * r.den

\* classify_volume
classify_volume(vol_rel_value, config) ==
    IF RatioGt(vol_rel_value, config.vol_ultra_high_gt) THEN "ULTRA_HIGH"
    ELSE IF RatioGt(vol_rel_value, config.vol_high_gt) THEN "HIGH"
    ELSE IF RatioLt(vol_rel_value, config.vol_low_lt) THEN "LOW"
    ELSE "AVERAGE"

\* classify_spread
classify_spread(spread_rel_value, config) ==
    IF RatioGt(spread_rel_value, config.spread_wide_gt) THEN "WIDE"
    ELSE IF RatioLt(spread_rel_value, config.spread_narrow_lt) THEN "NARROW"
    ELSE "NORMAL"

(***************************************************************************)
(* feature_engine.py                                                       *)
(***************************************************************************)
\* an exception leaving a call, in place of the value the call would return
Raised(exc) == [raised |-> exc]

IsRaised(value) == "raised" \in DOMAIN value

\* extract_features: "if not bars: raise ValueError(...)"
extract_features(bars, config) ==
    IF bars = <<>> THEN Raised("ValueError") ELSE
    LET current == bars[Len(bars)]
        computed_vol_rel == rel(current.volume, average_volume(bars, config.vol_avg_window_N))
        computed_spread_rel == rel(spread(current), average_spread(bars, config.spread_avg_window_M))
    IN  [ts |-> current.timestamp,
         spread |-> spread(current),
         range |-> bar_range(current),
         upper_wick |-> upper_wick(current),
         lower_wick |-> lower_wick(current),
         spread_rel |-> computed_spread_rel,
         vol_rel |-> computed_vol_rel,
         vol_state |-> classify_volume(computed_vol_rel, config),
         spread_state |-> classify_spread(computed_spread_rel, config),
         candle_type |-> IF current.close >= current.open THEN "UP" ELSE "DOWN"]

(***************************************************************************)
(* rule_engine.py: each detector is the condition under which it returns   *)
(* its SignalEvent; the event itself is RuleSignal(id, features.ts, ...).  *)
(***************************************************************************)
detect_val_1(f, config) ==
    f.candle_type = "UP" /\ f.spread_state = "WIDE" /\ f.vol_state \in {"HIGH", "ULTRA_HIGH"}

detect_anom_1(f, config) ==
    f.candle_type = "UP" /\ f.spread_state = "WIDE" /\ f.vol_state = "LOW"

detect_anom_2(f, config) ==
    f.vol_state \in {"HIGH", "ULTRA_HIGH"} /\ f.spread_state \in {"NARROW", "NORMAL"}

detect_str_1(f, config) ==
    /\ f.range > 0
    /\ ~(f.lower_wick * 100 < config.hammer_lower_wick_ratio_min * f.range)
    /\ ~(f.spread * 100 > config.hammer_body_ratio_max * f.range)
    /\ ~(f.upper_wick * 100 > config.hammer_upper_wick_ratio_max * f.range)

\* the shooting-star geometry shared by WEAK-1, WEAK-2 and CLIMAX-SELL-1
shooting_star_shape(f, config) ==
    /\ ~(f.upper_wick * 100 < config.star_upper_wick_ratio_min * f.range)
    /\ ~(f.spread * 100 > config.star_body_ratio_max * f.range)
    /\ ~(f.lower_wick * 100 > config.star_lower_wick_ratio_max * f.range)

detect_weak_1(f, config) ==
    f.range > 0 /\ shooting_star_shape(f, config)

detect_weak_2(f, config) ==
    f.range > 0 /\ f.vol_state = "LOW" /\ shooting_star_shape(f, config)

detect_climax_sell_1(f, config) ==
    f.range > 0 /\ f.vol_state \in {"HIGH", "ULTRA_HIGH"} /\ shooting_star_shape(f, config)

detect_conf_1(f, config) ==
    /\ f.candle_type = "UP"
    /\ f.vol_state \in {"AVERAGE", "HIGH", "ULTRA_HIGH"}
    /\ f.spread_state \in {"NORMAL", "WIDE"}

detect_avoid_news_1(f, config) ==
    /\ f.range > 0
    /\ f.vol_state = "LOW"
    /\ ~(f.spread * 100 > config.doji_body_ratio_max * f.range)
    /\ ~(f.upper_wick * 100 < config.doji_min_wick_ratio * f.range)
    /\ ~(f.lower_wick * 100 < config.doji_min_wick_ratio * f.range)

detect_test_sup_1(f, config) ==
    f.vol_state = "LOW" /\ f.spread_state \in {"NARROW", "NORMAL"}

detect_test_sup_2(f, config) ==
    f.vol_state \in {"HIGH", "ULTRA_HIGH"} /\ f.spread_state \in {"NARROW", "NORMAL"}

detect_test_dem_1(f, config) ==
    /\ f.range > 0
    /\ f.vol_state = "LOW"
    /\ ~(f.spread * 100 > config.star_body_ratio_max * f.range)
    /\ ~(f.upper_wick <= f.lower_wick)

\* _RULE_DETECTORS, in order, as (id, fired) pairs
rule_detectors(f, config) ==
    << <<"VAL-1", detect_val_1(f, config)>>,
       <<"ANOM-1", detect_anom_1(f, config)>>,
       <<"ANOM-2", detect_anom_2(f, config)>>,
       <<"STR-1", detect_str_1(f, config)>>,
       <<"WEAK-1", detect_weak_1(f, config)>>,
       <<"WEAK-2", detect_weak_2(f, config)>>,
       <<"CLIMAX-SELL-1", detect_climax_sell_1(f, config)>>,
       <<"CONF-1", detect_conf_1(f, config)>>,
       <<"AVOID-NEWS-1", detect_avoid_news_1(f, config)>>,
       <<"TEST-SUP-1", detect_test_sup_1(f, config)>>,
       <<"TEST-SUP-2", detect_test_sup_2(f, config)>>,
       <<"TEST-DEM-1", detect_test_dem_1(f, config)>> >>

Fired(d) == d[2]

\* evaluate_rules
evaluate_rules(f, config) ==
    LET fired == SelectSeq(rule_detectors(f, config), Fired)
    IN  [k \in 1..Len(fired) |-> RuleSignal(fired[k][1], f.ts, NoneVal, NoneVal)]

detect_trend_val_1(context, config) ==
    context.trend = "UP" /\ context.volume_trend = "RISING"

detect_trend_anom_1(context, config) ==
    context.trend = "UP" /\ context.volume_trend = "FALLING"

\* evaluate_trend_rules; now is what _now() returns for the signals' ts
evaluate_trend_rules(context, config, now) ==
    (IF detect_trend_val_1(context, config)
     THEN <<RuleSignal("TREND-VAL-1", now, NoneVal, NoneVal)>> ELSE <<>>)
    \o (IF detect_trend_anom_1(context, config)
        THEN <<RuleSignal("TREND-ANOM-1", now, NoneVal, NoneVal)>> ELSE <<>>)

(***************************************************************************)
(* context_engine.py                                                       *)
(***************************************************************************)
unknown_context ==
    ContextSnapshot("UNKNOWN", "WEAK", "UNKNOWN", FALSE, "UNKNOWN", "UNKNOWN")

\* _detect_trend: [trend, strength]
detect_trend(bars, window_k) ==
    LET lookback == Min(window_k, Len(bars) - 1)
    IN  IF lookback < 1 THEN [trend |-> "UNKNOWN", strength |-> "WEAK"]
        ELSE LET recent == SubSeq(bars, Len(bars) - lookback, Len(bars))
                 ups == Cardinality({k \in 2..Len(recent) : recent[k].close > recent[k-1].close})
                 downs == Cardinality({k \in 2..Len(recent) : recent[k].close < recent[k-1].close})
                 dominant == Max(ups, downs)
                 strength == IF dominant * 100 >= 80 * lookback THEN "STRONG"
                             ELSE IF dominant * 100 >= 60 * lookback THEN "MODERATE"
                             ELSE "WEAK"
             IN  IF ups + downs = 0 THEN [trend |-> "RANGE", strength |-> "WEAK"]
                 ELSE IF ups > downs THEN [trend |-> "UP", strength |-> strength]
                 ELSE IF downs > ups THEN [trend |-> "DOWN", strength |-> strength]
                 ELSE [trend |-> "RANGE", strength |-> "WEAK"]

\* max(b.high ...) - min(b.low ...) over a window of bars
high_low_range(window) ==
    MaxSeq([k \in 1..Len(window) |-> window[k].high])
    - MinSeq([k \in 1..Len(window) |-> window[k].low])

\* _detect_location
detect_location(bars, location_lookback) ==
    LET window == LastN(bars, location_lookback)
    IN  IF Len(window) < 2 THEN "UNKNOWN"
        ELSE LET lowest == MinSeq([k \in 1..Len(window) |-> window[k].low])
                 full_range == high_low_range(window)
                 current_close == bars[Len(bars)].close
             IN  IF full_range <= 0 THEN "MIDDLE"
                 ELSE IF (current_close - lowest) * 100 >= 75 * full_range THEN "TOP"
                 ELSE IF (current_close - lowest) * 100 <= 25 * full_range THEN "BOTTOM"
                 ELSE "MIDDLE"

\* _detect_congestion: Congestion.active
detect_congestion(bars, congestion_window, location_lookback, congestion_pct) ==
    IF Len(bars) < Max(congestion_window, 2) THEN FALSE
    ELSE LET recent_range == high_low_range(LastN(bars, congestion_window))
             wider_range == high_low_range(LastN(bars, location_lookback))
         IN  IF wider_range <= 0 THEN FALSE
             ELSE recent_range * 100 < congestion_pct * wider_range

\* analyze
analyze(bars, config) ==
    IF Len(bars) < 2 THEN unknown_context
    ELSE LET t == detect_trend(bars, config.trend_window_K)
         IN  ContextSnapshot(t.trend, t.strength,
                             detect_location(bars, config.trend_location_lookback),
                             detect_congestion(bars, config.trend_congestion_window,
                                               config.trend_location_lookback,
                                               config.trend_congestion_pct),
                             "UNKNOWN", "UNKNOWN")

(***************************************************************************)
(* atr.py                                                                  *)
(***************************************************************************)
true_range(current, prev_close) ==
    Max(current.high - current.low,
        Max(Abs(current.high - prev_close), Abs(current.low - prev_close)))

\* compute_atr: the mean of the last period true ranges (whole cents)
compute_atr(bars, period) ==
    IF Len(bars) < 2 THEN 0
    ELSE LET tr_values == [k \in 1..(Len(bars) - 1) |-> true_range(bars[k+1], bars[k].close)]
             window == LastN(tr_values, period)
         IN  SumSeq(window) \div Len(window)

(***************************************************************************)
(* pipeline.py                                                             *)
(***************************************************************************)
PipelineResult(bar_idx, features, signals, gate_result, ms, intents, daily_context) ==
    [bar_index |-> bar_idx, features |-> features, signals |-> signals,
     gate_result |-> gate_result, matches |-> ms, intents |-> intents,
     daily_context |-> daily_context]

\* The rule engine of this source tree has no cluster-level detector, no
\* CONF-2 detector and no derived avoidance rule, and the rule list of the
\* specification names none: these three stages emit nothing.
evaluate_cluster_rules(bars, config) == <<>>

detect_conf_2(bar_signals, other_signals, config) == <<>>

evaluate_avoidance_rules(bar_signals, context, config) == <<>>

\* sig.evidence.setdefault("bar_low", current_bar.low), likewise bar_high
stamp_evidence(signals, current_bar) ==
    [k \in 1..Len(signals) |->
        [signals[k] EXCEPT
            !.bar_low = IF @ = NoneVal THEN current_bar.low ELSE @,
            !.bar_high = IF @ = NoneVal THEN current_bar.high ELSE @]]

\* the wall clock of a backtest or a live cycle, later than every bar of the
\* history; analyze leaves volume_trend UNKNOWN, so no signal carries it there
NowTs == 1000

\* variant: an average equal to min_avg_volume is blocked as well
volume_guard_blocks_inclusive(bars, config) ==
    /\ config.volume_guard_enabled
    /\ LET avg_vol == average_volume(bars, config.vol_avg_window_N)
       IN  avg_vol.num <= config.volume_guard_min_avg_volume * avg_vol.den

\* config.volume_guard.enabled and average_volume(...) < min_avg_volume
volume_guard_blocks(bars, config) ==
    /\ config.volume_guard_enabled
    /\ LET avg_vol == average_volume(bars, config.vol_avg_window_N)
       IN  avg_vol.num < config.volume_guard_min_avg_volume * avg_vol.den

\* variant: every signal of the bar is fed into the composer, blocked or not
composer_input_ungated(signals, gate_result) == signals

\* "composer.process_signals(gate_result.actionable, ...)": what the composer is fed
composer_input(signals, gate_result) == gate_result.actionable

\* run_pipeline after "if not bars": the stages from extract_features to the
\* returned PipelineResult, as [result, candidates] where candidates is the
\* composer's state after the call and now is the wall clock _now() reads
run_pipeline_stages(bars, bar_idx, context, account, config, cands, daily_context, now) ==
    IF volume_guard_blocks(bars, config)
    THEN [result |-> PipelineResult(bar_idx, extract_features(bars, config), <<>>, NoneRec,
                                    <<>>, <<>>, NoneRec),
          candidates |-> cands]
    ELSE LET features == extract_features(bars, config)
             bar_signals == evaluate_rules(features, config)
             trend_signals == evaluate_trend_rules(context, config, now)
             cluster_signals == evaluate_cluster_rules(bars, config)
             conf_2 == detect_conf_2(bar_signals, trend_signals \o cluster_signals, config)
             avoidance_signals == evaluate_avoidance_rules(bar_signals, context, config)
             signals == stamp_evidence(bar_signals \o trend_signals \o cluster_signals
                                       \o avoidance_signals \o conf_2, bars[Len(bars)])
             gate_result == apply_gates(signals, context, config, daily_context)
             composed == process_signals(cands, composer_input(signals, gate_result), bar_idx,
                                         config.setup_window_X)
             current_price == bars[Len(bars)].close
             atr_value == IF config.atr_enabled THEN compute_atr(bars, config.atr_period) ELSE 0
             intents == evaluate_matches(composed.matches, current_price,
                                         account, context, config, atr_value)
         IN  [result |-> PipelineResult(bar_idx, features, signals, gate_result,
                                        composed.matches, intents, daily_context),
              candidates |-> composed.candidates]

\* variant: no "if not bars" check, so the ValueError of extract_features on an
\* empty history leaves run_pipeline
run_pipeline_unchecked(bars, bar_idx, context, account, config, cands, daily_context, now) ==
    IF IsRaised(extract_features(bars, config))
    THEN [result |-> extract_features(bars, config), candidates |-> cands]
    ELSE run_pipeline_stages(bars, bar_idx, context, account, config, cands, daily_context, now)

\* run_pipeline: [result, candidates]
run_pipeline(bars, bar_idx, context, account, config, cands, daily_context, now) ==
    IF bars = <<>>
    THEN [result |-> PipelineResult(bar_idx, NoneRec, <<>>, NoneRec, <<>>, <<>>, NoneRec),
          candidates |-> cands]
    ELSE run_pipeline_stages(bars, bar_idx, context, account, config, cands, daily_context, now)

(***************************************************************************)
(* backtest/runner.py.  slippage_bps is in basis points; a price times     *)
(* (1 +- bps/10000) is exact on the opens and stops the bars carry.        *)
(***************************************************************************)
\* variant: a LONG is filled below the open, a SHORT above it
fill_price_reversed(bar, direction, slippage_bps) ==
    IF direction = "LONG" THEN (bar.open * (10000 - slippage_bps)) \div 10000
    ELSE (bar.open * (10000 + slippage_bps)) \div 10000

\* _fill_price
fill_price(bar, direction, slippage_bps) ==
    IF direction = "LONG" THEN (bar.open * (10000 + slippage_bps)) \div 10000
    ELSE (bar.open * (10000 - slippage_bps)) \div 10000

OpenPosition(intent, entry_price, qty, entry_bar_idx, stop) ==
    [intent |-> intent, entry_price |-> entry_price, qty |-> qty,
     entry_bar_idx |-> entry_bar_idx, stop |-> stop]

BacktestTrade(direction, entry_time, entry_price, exit_time, exit_price, qty, pnl, setup, rationale) ==
    [direction |-> direction, entry_time |-> entry_time, entry_price |-> entry_price,
     exit_time |-> exit_time, exit_price |-> exit_price, qty |-> qty, pnl |-> pnl,
     setup |-> setup, rationale |-> rationale]

\* the loop's locals before the first iteration
BacktestStart(initial_cash) ==
    [i |-> 0, cash |-> initial_cash, daily_pnl |-> 0, composer |-> <<>>,
     position |-> NoneRec, pending_intent |-> NoneRec, trades |-> <<>>,
     pipeline_events |-> <<>>, journal |-> <<>>]

\* variant: the pipeline is handed one bar more than the current one
current_bars_ahead(bars, i) == SubSeq(bars, 1, Min(i + 2, Len(bars)))

\* current_bars = bars[: i + 1]
current_bars_of(bars, i) == SubSeq(bars, 1, i + 1)

\* "Execute pending intent at this bar's open": the locals after the block
fill_pending(st, current_bar, slippage_bps) ==
    IF st.pending_intent # NoneRec /\ st.position = NoneRec
    THEN LET entry_price == fill_price(current_bar, st.pending_intent.direction, slippage_bps)
         IN  [st EXCEPT
                !.position = OpenPosition(st.pending_intent, entry_price,
                                          st.pending_intent.size, st.i,
                                          st.pending_intent.stop),
                !.journal = Append(@, [event |-> "entry",
                                       intent_id |-> st.pending_intent.intent_id,
                                       bar_index |-> st.i,
                                       entry_price |-> entry_price,
                                       qty |-> st.pending_intent.size]),
                !.pending_intent = NoneRec]
    ELSE st

\* variant: the stop exit of a LONG slips upwards, that of a SHORT downwards
check_stop_reversed(position, current_bar, is_last, slippage_bps) ==
    IF position.intent.direction = "LONG" /\ current_bar.low <= position.stop
    THEN [exited |-> TRUE, exit_reason |-> "stop",
          exit_price |-> (position.stop * (10000 + slippage_bps)) \div 10000]
    ELSE IF position.intent.direction = "SHORT" /\ current_bar.high >= position.stop
    THEN [exited |-> TRUE, exit_reason |-> "stop",
          exit_price |-> (position.stop * (10000 - slippage_bps)) \div 10000]
    ELSE IF is_last
    THEN [exited |-> TRUE, exit_reason |-> "end_of_data", exit_price |-> current_bar.close]
    ELSE [exited |-> FALSE, exit_reason |-> "", exit_price |-> 0]

\* "Check stop on open position": [exited, exit_price, exit_reason]
check_stop(position, current_bar, is_last, slippage_bps) ==
    IF position.intent.direction = "LONG" /\ current_bar.low <= position.stop
    THEN [exited |-> TRUE, exit_reason |-> "stop",
          exit_price |-> (position.stop * (10000 - slippage_bps)) \div 10000]
    ELSE IF position.intent.direction = "SHORT" /\ current_bar.high >= position.stop
    THEN [exited |-> TRUE, exit_reason |-> "stop",
          exit_price |-> (position.stop * (10000 + slippage_bps)) \div 10000]
    ELSE IF is_last
    THEN [exited |-> TRUE, exit_reason |-> "end_of_data", exit_price |-> current_bar.close]
    ELSE [exited |-> FALSE, exit_reason |-> "", exit_price |-> 0]

\* variant: the exit branch books the trade and daily_pnl but not cash
exit_position_cashless(st, bars, x) ==
    LET position == st.position
        current_bar == bars[st.i + 1]
        pnl == IF position.intent.direction = "LONG"
               THEN (x.exit_price - position.entry_price) * position.qty
               ELSE (position.entry_price - x.exit_price) * position.qty
        trade == BacktestTrade(position.intent.direction,
                               bars[position.entry_bar_idx + 1].timestamp,
                               position.entry_price, current_bar.timestamp, x.exit_price,
                               position.qty, pnl, position.intent.setup,
                               position.intent.rationale)
    IN  [st EXCEPT !.daily_pnl = @ + pnl,
                   !.trades = Append(@, trade),
                   !.journal = Append(@, [event |-> "exit", trade |-> trade,
                                          reason |-> x.exit_reason]),
                   !.position = NoneRec,
                   !.i = @ + 1]

\* variant: the exit branch records a PipelineResult for its bar before it continues
exit_position_recording(st, bars, x) ==
    LET position == st.position
        current_bar == bars[st.i + 1]
        pnl == IF position.intent.direction = "LONG"
               THEN (x.exit_price - position.entry_price) * position.qty
               ELSE (position.entry_price - x.exit_price) * position.qty
        trade == BacktestTrade(position.intent.direction,
                               bars[position.entry_bar_idx + 1].timestamp,
                               position.entry_price, current_bar.timestamp, x.exit_price,
                               position.qty, pnl, position.intent.setup,
                               position.intent.rationale)
    IN  [st EXCEPT !.cash = @ + pnl, !.daily_pnl = @ + pnl,
                   !.trades = Append(@, trade),
                   !.pipeline_events = Append(@, PipelineResult(st.i, NoneRec, <<>>, NoneRec,
                                                                <<>>, <<>>, NoneRec)),
                   !.journal = Append(@, [event |-> "exit", trade |-> trade,
                                          reason |-> x.exit_reason]),
                   !.position = NoneRec,
                   !.i = @ + 1]

\* the exit branch: book the trade, drop the position, continue
exit_position(st, bars, x) ==
    LET position == st.position
        current_bar == bars[st.i + 1]
        pnl == IF position.intent.direction = "LONG"
               THEN (x.exit_price - position.entry_price) * position.qty
               ELSE (position.entry_price - x.exit_price) * position.qty
        trade == BacktestTrade(position.intent.direction,
                               bars[position.entry_bar_idx + 1].timestamp,
                               position.entry_price, current_bar.timestamp, x.exit_price,
                               position.qty, pnl, position.intent.setup,
                               position.intent.rationale)
    IN  [st EXCEPT !.cash = @ + pnl, !.daily_pnl = @ + pnl,
                   !.trades = Append(@, trade),
                   !.journal = Append(@, [event |-> "exit", trade |-> trade,
                                          reason |-> x.exit_reason]),
                   !.position = NoneRec,
                   !.i = @ + 1]

\* the first READY intent of result.intents, NoneRec if there is none
first_ready(intents) ==
    IF \E k \in 1..Len(intents) : intents[k].status = "READY"
    THEN intents[CHOOSE k \in 1..Len(intents) :
                    /\ intents[k].status = "READY"
                    /\ \A j \in 1..(k-1) : intents[j].status # "READY"]
    ELSE NoneRec

\* variant: an intent is queued on the final bar as well
may_queue_on_last_bar(st, bars) ==
    st.position = NoneRec /\ st.pending_intent = NoneRec

\* a variant that queues whenever nothing is pending, position or not
may_queue_flatless(st, bars) ==
    st.pending_intent = NoneRec /\ st.i + 1 < Len(bars)

\* "if position is None and pending_intent is None and i + 1 < len(bars)"
may_queue(st, bars) ==
    st.position = NoneRec /\ st.pending_intent = NoneRec /\ st.i + 1 < Len(bars)

\* "Run pipeline on completed bar" and "Queue the first READY intent"
run_and_queue(st, bars, config) ==
    LET account == AccountState(st.cash, IF st.position # NoneRec THEN 1 ELSE 0, st.daily_pnl)
        current_bars == current_bars_of(bars, st.i)
        context == analyze(current_bars, config)
        piped == run_pipeline(current_bars, st.i, context, account, config, st.composer,
                              NoneRec, NowTs)
        queued == IF may_queue(st, bars) THEN first_ready(piped.result.intents) ELSE NoneRec
    IN  [st EXCEPT !.composer = piped.candidates,
                   !.pipeline_events = Append(@, piped.result),
                   !.pending_intent = IF queued # NoneRec THEN queued ELSE @,
                   !.journal = IF queued # NoneRec
                               THEN Append(@, [event |-> "signal", intent |-> queued,
                                               bar_index |-> st.i])
                               ELSE @,
                   !.i = @ + 1]

\* variant: the pipeline runs only on a bar on which no position is open
backtest_step_flat_only(st, bars, config) ==
    LET current_bar == bars[st.i + 1]
        filled == fill_pending(st, current_bar, config.slippage_value)
    IN  IF filled.position # NoneRec
        THEN LET x == check_stop(filled.position, current_bar, st.i = Len(bars) - 1,
                                 config.slippage_value)
             IN  IF x.exited THEN exit_position(filled, bars, x)
                 ELSE [filled EXCEPT !.i = @ + 1]
        ELSE run_and_queue(filled, bars, config)

\* one iteration of the for loop of run_backtest, for i = st.i
backtest_step(st, bars, config) ==
    LET current_bar == bars[st.i + 1]
        filled == fill_pending(st, current_bar, config.slippage_value)
    IN  IF filled.position # NoneRec
        THEN LET x == check_stop(filled.position, current_bar, st.i = Len(bars) - 1,
                                 config.slippage_value)
             IN  IF x.exited THEN exit_position(filled, bars, x)
                 ELSE run_and_queue(filled, bars, config)
        ELSE run_and_queue(filled, bars, config)

(***************************************************************************)
(* cli/safety.py: SafetyGuard.  Money is in whole dollars, the loss limit  *)
(* percentage in percent; a date is its ordinal, NoneVal before the first  *)
(* call that sees one.                                                     *)
(***************************************************************************)
SafetyResult(allowed, reason) == [allowed |-> allowed, reason |-> reason]

\* SafetyGuard.__init__
SafetyGuard(kill_switch, max_daily_loss_pct, initial_cash) ==
    [kill_switch |-> kill_switch, max_daily_loss_pct |-> max_daily_loss_pct,
     initial_cash |-> initial_cash, daily_pnl |-> 0, trading_date |-> NoneVal]

\* variant: a new date is noted and the day's P&L is carried over
reset_if_new_day_carrying(g, today) ==
    IF g.trading_date # today
    THEN [g EXCEPT !.trading_date = today]
    ELSE g

\* _reset_if_new_day: the guard after the call
reset_if_new_day(g, today) ==
    IF g.trading_date # today
    THEN [g EXCEPT !.daily_pnl = 0, !.trading_date = today]
    ELSE g

\* record_pnl: the guard after the call
record_pnl(g, pnl, today) ==
    LET g1 == reset_if_new_day(g, today)
    IN  [g1 EXCEPT !.daily_pnl = @ + pnl]

\* variant: a loss exactly at the limit does not breach it
loss_limit_breached_strict(g) ==
    g.daily_pnl < 0 /\ Abs(g.daily_pnl) * 100 > g.initial_cash * g.max_daily_loss_pct

\* self._daily_pnl < 0 and abs(self._daily_pnl) >= self.max_daily_loss, with
\* max_daily_loss = initial_cash * (max_daily_loss_pct / 100.0)
loss_limit_breached(g) ==
    g.daily_pnl < 0 /\ Abs(g.daily_pnl) * 100 >= g.initial_cash * g.max_daily_loss_pct

\* variant: the daily loss is examined before the kill switch
check_loss_first(g, today) ==
    LET g1 == reset_if_new_day(g, today)
    IN  IF loss_limit_breached(g1)
        THEN [guard |-> g1, result |-> SafetyResult(FALSE, "Daily loss limit breached")]
        ELSE IF g.kill_switch
        THEN [guard |-> g1, result |-> SafetyResult(FALSE, "Kill switch is ON")]
        ELSE [guard |-> g1, result |-> SafetyResult(TRUE, "")]

\* check: [guard, result], the guard after the call and the SafetyResult
check(g, today) ==
    IF g.kill_switch
    THEN [guard |-> g, result |-> SafetyResult(FALSE, "Kill switch is ON")]
    ELSE LET g1 == reset_if_new_day(g, today)
         IN  IF loss_limit_breached(g1)
             THEN [guard |-> g1, result |-> SafetyResult(FALSE, "Daily loss limit breached")]
             ELSE [guard |-> g1, result |-> SafetyResult(TRUE, "")]

(***************************************************************************)
(* execution/paper_executor.py: PaperExecutor.  The SQLite tables are the  *)
(* fields of one record; money and prices are in 1/10000 dollar, so the    *)
(* 5 bps slippage of a fill is exact; an order id (uuid4) is the number of *)
(* the order.  A TradePlan is [signal_id, direction, stop_level], with     *)
(* stop_level = NoneVal for a stop that is not a number.                   *)
(***************************************************************************)
\* Python int(a / b) for b > 0: truncation towards zero
TruncDiv(a, b) == IF a >= 0 THEN a \div b ELSE 0 - ((0 - a) \div b)

\* PaperExecutor.__init__ and _init_schema on a fresh state file
PaperExecutor(symbols, max_cash_per_trade_pct, initial_cash) ==
    [orders |-> <<>>, fills |-> <<>>, positions |-> [sym \in symbols |-> NoneRec],
     cash |-> initial_cash, max_cash_per_trade_pct |-> max_cash_per_trade_pct]

\* "if pos_row and pos_row[0] != 0": the symbol already has a position
has_open_position(led, symbol) ==
    led.positions[symbol] # NoneRec /\ led.positions[symbol].qty # 0

\* the quantity _submit_impl sizes, 0 or less when it returns None
submit_qty(led, plan, current_price) ==
    LET stop_price == IF plan.stop_level # NoneVal THEN plan.stop_level
                      ELSE (current_price * 99) \div 100
        risk_per_share == Abs(current_price - stop_price)
        risk_amount_x100 == led.cash * led.max_cash_per_trade_pct
        qty == IF risk_per_share <= 0 THEN 0
               ELSE TruncDiv(risk_amount_x100, 100 * risk_per_share)
    IN  IF qty > 0 /\ plan.direction = "long" /\ current_price * qty > led.cash
        THEN TruncDiv(led.cash, current_price)
        ELSE qty

\* PaperExecutor.submit / _submit_impl: [ledger, order], the tables after the
\* call and the Order returned, NoneRec for None
submit(led, symbol, plan, current_price, slippage_bps) ==
    IF has_open_position(led, symbol) THEN [ledger |-> led, order |-> NoneRec]
    ELSE LET qty == submit_qty(led, plan, current_price)
             side == IF plan.direction = "long" THEN "buy" ELSE "sell"
             order == [id |-> Len(led.orders) + 1, symbol |-> symbol, side |-> side,
                       qty |-> qty, order_type |-> "market",
                       trade_plan_ref |-> plan.signal_id]
             slip == (current_price * slippage_bps) \div 10000
             paper_fill_price == IF plan.direction = "long" THEN current_price + slip
                                 ELSE current_price - slip
             fill == [order_id |-> order.id, symbol |-> symbol, side |-> side, qty |-> qty,
                      price |-> paper_fill_price, slippage_bps |-> slippage_bps]
         IN  IF qty <= 0 THEN [ledger |-> led, order |-> NoneRec]
             ELSE [ledger |->
                     [led EXCEPT
                        !.orders = Append(@, order),
                        !.fills = Append(@, fill),
                        !.positions[symbol] =
                            [side |-> plan.direction,
                             qty |-> IF plan.direction = "long" THEN qty ELSE 0 - qty,
                             avg_price |-> paper_fill_price],
                        !.cash = IF plan.direction = "long" THEN @ - paper_fill_price * qty ELSE @],
                   order |-> order]

(***************************************************************************)
(* cli/scheduler.py: one evaluation cycle of the live paper-trading loop.  *)
(***************************************************************************)
\* _ingest_latest: the store after write_bars; the bars fetched are newer
\* than every bar of the store and take the next timestamps
ingest_latest(store, fetched) ==
    store \o [k \in 1..Len(fetched) |-> [fetched[k] EXCEPT !.timestamp = Len(store) + k - 1]]

IsReady(intent) == intent.status = "READY"

\* ready_intents = [i for i in result.intents if i.status.value == "READY"]
ready_intents(result) == SelectSeq(result.intents, IsReady)

\* PaperExecutor.submit_intent: an order unless a position is already held
submit_intent(has_position, intent, current_price) ==
    IF has_position THEN NoneRec
    ELSE [side |-> IF intent.direction = "LONG" THEN "buy" ELSE "sell",
          qty |-> intent.size, price |-> current_price]

\* variant: the composer of the session is reused by the next cycle
cycle_composer_kept(session_candidates) == session_candidates

\* composer = SetupComposer(vpa_cfg): the candidates the cycle's composer
\* starts with, whatever the composer of the cycle before ended with
cycle_composer(session_candidates) == <<>>

\* the body of "for intent in ready_intents": submit, journal the order, break
paper_dispatch(ses, intent, order) ==
    [ses EXCEPT !.dispatched = Append(@, [intent |-> intent, order |-> order]),
                !.has_position = @ \/ order # NoneRec,
                !.journal = IF order # NoneRec
                            THEN Append(@, [event |-> "signal", setup |-> intent.setup,
                                            direction |-> intent.direction,
                                            rationale |-> intent.rationale])
                            ELSE @]

\* "if not ready_intents: return", else the first of them is dispatched
paper_submit(ses, ready, current_price) ==
    IF ready = <<>> THEN ses
    ELSE paper_dispatch(ses, ready[1], submit_intent(ses.has_position, ready[1], current_price))

\* what a cycle leaves once run_pipeline has returned piped
cycle_outcome(ses, bars, start, piped) ==
    [ses |-> paper_submit(ses, ready_intents(piped.result), bars[Len(bars)].close),
     start |-> start, end |-> piped.candidates, result |-> piped.result]

\* _run_paper_cycle from "store = BarStore(...)" on.  ses is what outlives a
\* cycle: [store, has_position, journal, dispatched]; the result also holds
\* what the cycle computed: [start, end] the candidates of its composer
\* before and after run_pipeline, [result] the PipelineResult (NoneRec when
\* the cycle was skipped, which leaves [end] as it was).  The cycle builds
\* no SafetyGuard and calls none.
run_paper_cycle(ses, prev_end, window, vpa_cfg, initial_cash) ==
    IF Len(ses.store) < 2
    THEN [ses |-> ses, start |-> NoneRec, end |-> prev_end, result |-> NoneRec]
    ELSE cycle_outcome(ses, LastN(ses.store, window), cycle_composer(prev_end),
                       run_pipeline(LastN(ses.store, window),
                                    Len(LastN(ses.store, window)) - 1,
                                    analyze(LastN(ses.store, window), vpa_cfg),
                                    AccountState(initial_cash, 0, 0), vpa_cfg,
                                    cycle_composer(prev_end), NoneRec, NowTs))

(***************************************************************************)
(* State.                                                                  *)
(***************************************************************************)
VARIABLES
    \* --- SetupComposer ---
    window_x,      \* self._window_x (config.setup.window_X at construction)
    candidates,    \* self._candidates
    bar_index,     \* bar_index of the last process_signals call, -1 before the first
    phase,         \* "idle", or "returned" while the caller holds the last call's result
    signals_in,    \* the signals of the call that has just returned
    before,        \* self._candidates when that call started
    matches,       \* what that call returned
    last_dropped,  \* per setup_id: started_at_bar of the candidate invalidated last, -1 if none
    last_completed, \* per setup_id: started_at_bar of the candidate completed last, -1 if none
    \* --- apply_gates ---
    gate_in,       \* the arguments: [signals, context, gates, daily_context]
    gate_out,      \* NoneRec before the call, then the GateResult
    \* --- evaluate_risk ---
    risk_in,       \* the arguments: [matches, current_price, account, context, config, atr_value]
    risk_out,      \* NoneRec before the call, then [intents |-> the TradeIntents]
    \* --- run_backtest ---
    bars_in,         \* the bars argument
    config_in,       \* the config argument
    loop_i,          \* i of the next loop iteration; len(bars) once the loop has ended
    cash,
    daily_pnl,
    composer,        \* composer._candidates
    position,        \* NoneRec or the _OpenPosition
    pending_intent,  \* NoneRec or the queued TradeIntent
    trades,
    pipeline_events,
    journal,         \* the events handed to journal_callback, in order
    bt_result,       \* NoneRec until run_backtest returns its BacktestResult
    \* --- SafetyGuard ---
    guard,           \* NoneRec or the SafetyGuard's fields
    guard_calls,     \* number of record_pnl and check calls made on it
    pnl_seen,        \* the largest pnl handed to record_pnl so far, 0 before
    guard_log,       \* the calls made on the guard, in order: [op, pnl, today]
    safety_result,   \* NoneRec or the SafetyResult of the last check call
    \* --- run_live_loop ---
    live_cfg,        \* NoneRec or [vpa, window, initial_cash]
    live_ses,        \* what outlives a cycle: [store, has_position, journal, dispatched]
    live_cycles,     \* cycles run so far
    live_prev,       \* the cycle before the last: NoneRec or [start, end, result]
    live_last,       \* the last cycle: NoneRec or [start, end, result]
    \* --- two replays of one history through run_pipeline ---
    replay_in,       \* NoneRec or [bars, config, volume_trend]
    replay_i,        \* index of the next bar both replays evaluate
    replay_a,        \* first replay: NoneRec or [composer, events]
    replay_b,        \* second replay: NoneRec or [composer, events]
    \* --- run_pipeline, bar after bar, on one composer ---
    pipe_in,         \* NoneRec or [bars, config]
    pipe_i,          \* bar_index of the next call
    pipe_composer,   \* composer._candidates
    pipe_last,       \* NoneRec or the last call: [context, before, result]
    \* --- PaperExecutor ---
    ledger,          \* NoneRec or the tables: [orders, fills, positions, cash]
    ledger_calls,    \* number of submit calls made
    ledger_last      \* NoneRec or the last call: [symbol, plan, current_price, before,
                     \* seen (the plans submitted by earlier calls), order]

composerVars == <<window_x, candidates, bar_index, phase, signals_in, before,
                  matches, last_dropped, last_completed>>

gateVars == <<gate_in, gate_out>>

riskVars == <<risk_in, risk_out>>

localVars == <<loop_i, cash, daily_pnl, composer, position, pending_intent, trades,
               pipeline_events, journal>>

backtestVars == <<bars_in, config_in, localVars, bt_result>>

safetyVars == <<guard, guard_calls, pnl_seen, guard_log, safety_result>>

liveVars == <<live_cfg, live_ses, live_cycles, live_prev, live_last>>

replayVars == <<replay_in, replay_i, replay_a, replay_b>>

pipeVars == <<pipe_in, pipe_i, pipe_composer, pipe_last>>

ledgerVars == <<ledger, ledger_calls, ledger_last>>

vars == <<composerVars, gateVars, riskVars, backtestVars, safetyVars, liveVars, replayVars, pipeVars, ledgerVars>>

SetupIds == {"ENTRY-LONG-1", "ENTRY-LONG-2", "ENTRY-SHORT-1"}

(***************************************************************************)
(* SpecComposer: a SetupComposer driven by arbitrary signal lists.         *)
(***************************************************************************)
\* The signals a caller may pass: the rule engine's bar-level signals and two
\* hand-built ones as the tests build them (a low-priority anomaly and a
\* soft avoidance signal), all stamped with the bar of the call.
ComposerSignals(ts) ==
    {RuleSignal(id, ts, NoneVal, NoneVal) :
        id \in {"TEST-SUP-1", "VAL-1", "STR-1", "CONF-1", "CLIMAX-SELL-1",
                "WEAK-1", "WEAK-2", "ANOM-1", "AVOID-NEWS-1"}}
    \cup {SignalEvent("ANOM-X", "ANOMALY", "BEARISH_OR_WAIT", 1, TRUE, ts, NoneVal, NoneVal),
          SignalEvent("AVOID-COUNTER-1", "AVOIDANCE", "NEUTRAL", 1, FALSE, ts, NoneVal, NoneVal)}

\* no apply_gates call is modelled
GatesIdle == gate_in = NoneRec /\ gate_out = NoneRec

\* no evaluate_risk call is modelled
RiskIdle == risk_in = NoneRec /\ risk_out = NoneRec

\* no backtest is modelled
BacktestIdle ==
    /\ bars_in = <<>> /\ config_in = NoneRec /\ bt_result = NoneRec
    /\ loop_i = 0 /\ cash = 0 /\ daily_pnl = 0 /\ composer = <<>>
    /\ position = NoneRec /\ pending_intent = NoneRec
    /\ trades = <<>> /\ pipeline_events = <<>> /\ journal = <<>>

\* no SafetyGuard is modelled
SafetyIdle ==
    /\ guard = NoneRec /\ guard_calls = 0 /\ pnl_seen = 0 /\ guard_log = <<>>
    /\ safety_result = NoneRec

\* no live session is modelled
LiveIdle ==
    /\ live_cfg = NoneRec /\ live_ses = NoneRec /\ live_cycles = 0
    /\ live_prev = NoneRec /\ live_last = NoneRec

\* no pair of replays is modelled
ReplayIdle ==
    replay_in = NoneRec /\ replay_i = 0 /\ replay_a = NoneRec /\ replay_b = NoneRec

\* no run_pipeline session is modelled
PipeIdle ==
    pipe_in = NoneRec /\ pipe_i = 0 /\ pipe_composer = <<>> /\ pipe_last = NoneRec

\* no PaperExecutor is modelled
LedgerIdle == ledger = NoneRec /\ ledger_calls = 0 /\ ledger_last = NoneRec

\* SetupComposer.__init__
InitComposer ==
    /\ GatesIdle /\ RiskIdle /\ BacktestIdle /\ SafetyIdle /\ LiveIdle /\ ReplayIdle /\ PipeIdle
    /\ LedgerIdle
    /\ window_x \in 1..MaxWindowX
    /\ candidates = <<>>
    /\ bar_index = -1
    /\ phase = "idle"
    /\ signals_in = <<>>
    /\ before = <<>>
    /\ matches = <<>>
    /\ last_dropped = [s \in SetupIds |-> -1]
    /\ last_completed = [s \in SetupIds |-> -1]

\* is candidate c removed by _invalidate_candidates for these signals?
IsInvalidated(c, signals) ==
    /\ c.state = "CANDIDATE"
    /\ \/ c.direction = "LONG" /\ should_invalidate_longs(signals)
       \/ c.direction = "SHORT" /\ should_invalidate_shorts(signals)

\* bookkeeping of the invalidated candidates (not part of the program)
DroppedAfter(ld, cands, signals) ==
    [s \in SetupIds |->
        LET hit == {k \in 1..Len(cands) :
                      cands[k].setup_id = s /\ IsInvalidated(cands[k], signals)}
        IN  IF hit = {} THEN ld[s]
            ELSE cands[CHOOSE k \in hit : \A j \in hit : j <= k].started_at_bar]

\* bookkeeping of the completed candidates (not part of the program)
CompletedAfter(lc, cands, signals) ==
    [s \in SetupIds |->
        LET hit == {k \in 1..Len(cands) :
                      cands[k].setup_id = s /\ Completes(cands[k], signals)}
        IN  IF hit = {} THEN lc[s]
            ELSE cands[CHOOSE k \in hit : \A j \in hit : j <= k].started_at_bar]

\* one call composer.process_signals(signals, b, context), b increasing
\* (a driver may skip a bar index, as run_backtest does on an exit bar)
ProcessSignals ==
    /\ phase = "idle"
    /\ bar_index < MaxBarIndex
    /\ \E b \in {bar_index + 1, bar_index + 2} :
         \E signals \in SeqsUpTo(ComposerSignals(b), MaxSignals) :
           LET r == process_signals(candidates, signals, b, window_x)
           IN  /\ b <= MaxBarIndex
               /\ candidates' = r.candidates
               /\ matches' = r.matches
               /\ bar_index' = b
               /\ signals_in' = signals
               /\ before' = candidates
               /\ last_dropped' = DroppedAfter(last_dropped,
                                      expire_candidates(candidates, b), signals)
               /\ last_completed' = CompletedAfter(last_completed,
                                        invalidate_candidates(expire_candidates(candidates, b), signals),
                                        signals)
               /\ phase' = "returned"
               /\ UNCHANGED <<window_x, gateVars, riskVars, backtestVars, safetyVars, liveVars, replayVars, pipeVars, ledgerVars>>

\* the caller is done with the returned matches
ReturnComposer ==
    /\ phase = "returned"
    /\ phase' = "idle"
    /\ signals_in' = <<>>
    /\ before' = <<>>
    /\ matches' = <<>>
    /\ UNCHANGED <<window_x, candidates, bar_index, last_dropped, last_completed, gateVars, riskVars, backtestVars, safetyVars, liveVars, replayVars, pipeVars, ledgerVars>>

NextComposer == ProcessSignals \/ ReturnComposer

SpecComposer == InitComposer /\ [][NextComposer]_vars

(***************************************************************************)
(* SpecGates: apply_gates on every input of a bounded set.                 *)
(***************************************************************************)
\* no composer is modelled
ComposerIdle ==
    /\ window_x = 1 /\ candidates = <<>> /\ bar_index = -1 /\ phase = "idle"
    /\ signals_in = <<>> /\ before = <<>> /\ matches = <<>>
    /\ last_dropped = [s \in SetupIds |-> -1]
    /\ last_completed = [s \in SetupIds |-> -1]

\* Signals handed to apply_gates: rule-engine signals of every class and
\* bias, and the two hand-built ones of the gate tests (a gated VALIDATION
\* and an ungated ANOMALY).
GateSignals ==
    {RuleSignal(id, 0, NoneVal, NoneVal) :
        id \in {"VAL-1", "ANOM-1", "TEST-SUP-1", "WEAK-1", "AVOID-NEWS-1"}}
    \cup {SignalEvent("VAL-1", "VALIDATION", "BULLISH", 1, TRUE, 1, NoneVal, NoneVal),
          SignalEvent("ANOM-1", "ANOMALY", "BEARISH_OR_WAIT", 2, FALSE, 1, NoneVal, NoneVal)}

GateContexts ==
    {ContextSnapshot("UP", "MODERATE", loc, cong, al, "UNKNOWN") :
        loc \in {"TOP", "BOTTOM", "MIDDLE", "UNKNOWN"}, cong \in BOOLEAN,
        al \in {"WITH", "AGAINST", "UNKNOWN"}}

GateConfigs ==
    [ctx1_trend_location_required : BOOLEAN,
     ctx2_dominant_alignment_policy : {"ALLOW", "REDUCE_RISK", "DISALLOW"},
     ctx3_congestion_awareness_required : BOOLEAN]

\* the daily snapshot: not supplied, or a snapshot with one of the trends
DailyContexts ==
    {NoneRec} \cup {ContextSnapshot(t, "MODERATE", "MIDDLE", FALSE, "UNKNOWN", "UNKNOWN") :
                     t \in {"UP", "DOWN", "RANGE", "UNKNOWN"}}

InitGates ==
    /\ ComposerIdle /\ RiskIdle /\ BacktestIdle /\ SafetyIdle /\ LiveIdle /\ ReplayIdle /\ PipeIdle
    /\ LedgerIdle
    /\ gate_in \in [signals : SeqsUpTo(GateSignals, MaxGateSignals),
                    context : GateContexts,
                    gates : GateConfigs,
                    daily_context : DailyContexts]
    /\ gate_out = NoneRec

\* result = apply_gates(signals, context, config, daily_context=daily_context)
ApplyGates ==
    /\ gate_in # NoneRec
    /\ gate_out = NoneRec
    /\ gate_out' = apply_gates(gate_in.signals, gate_in.context, gate_in.gates,
                               gate_in.daily_context)
    /\ UNCHANGED <<gate_in, composerVars, riskVars, backtestVars, safetyVars, liveVars, replayVars, pipeVars, ledgerVars>>

NextGates == ApplyGates

SpecGates == InitGates /\ [][NextGates]_vars

(***************************************************************************)
(* SpecRisk: the risk stage of run_pipeline (evaluate_risk on each match)  *)
(* on every input of a bounded set.                                        *)
(***************************************************************************)
\* Completed setups handed to the risk engine: the trigger carries the
\* bar_low / bar_high evidence the pipeline stamps on it (10 +- 1 dollars),
\* or none, or a bar_low equal to the 10-dollar price.
RiskMatches ==
    {SetupMatch("ENTRY-LONG-1", "LONG",
                <<RuleSignal("TEST-SUP-1", 0, 900, 1100), RuleSignal("VAL-1", 1, 950, 1050)>>, 1),
     SetupMatch("ENTRY-LONG-2", "LONG",
                <<RuleSignal("STR-1", 0, NoneVal, NoneVal), RuleSignal("CONF-1", 1, NoneVal, NoneVal)>>, 1),
     SetupMatch("ENTRY-LONG-1", "LONG",
                <<RuleSignal("TEST-SUP-1", 0, 1000, 1000), RuleSignal("VAL-1", 1, 950, 1050)>>, 1),
     SetupMatch("ENTRY-SHORT-1", "SHORT",
                <<RuleSignal("CLIMAX-SELL-1", 0, 900, 1100), RuleSignal("WEAK-1", 1, 950, 1050)>>, 1),
     SetupMatch("ENTRY-SHORT-1", "SHORT",
                <<RuleSignal("CLIMAX-SELL-1", 0, NoneVal, NoneVal), RuleSignal("WEAK-2", 1, NoneVal, NoneVal)>>, 1)}

RiskAccounts ==
    {AccountState(e, n, p) : e \in {0, 100000, 1000000}, n \in 0..2, p \in {0, -2000}}

RiskConfigs ==
    [max_concurrent_positions : {1, 2},
     daily_loss_limit_pct : {NoneVal, 200},
     risk_pct_per_trade : {50},
     countertrend_multiplier : {50},
     ctx2_dominant_alignment_policy : {"ALLOW", "REDUCE_RISK", "DISALLOW"},
     atr_enabled : BOOLEAN,
     atr_stop_multiplier : {15},
     atr_period : {14}]

RiskContexts ==
    {ContextSnapshot("UP", "MODERATE", "MIDDLE", FALSE, al, "UNKNOWN") :
        al \in {"WITH", "AGAINST", "UNKNOWN"}}

InitRisk ==
    /\ ComposerIdle /\ GatesIdle /\ BacktestIdle /\ SafetyIdle /\ LiveIdle /\ ReplayIdle /\ PipeIdle
    /\ LedgerIdle
    /\ risk_in \in [matches : SeqsUpTo(RiskMatches, MaxMatches),
                    current_price : {1000, 5000},
                    account : RiskAccounts,
                    context : RiskContexts,
                    config : RiskConfigs,
                    atr_value : {0, 800}]
    /\ risk_out = NoneRec

\* intents = [evaluate_risk(m, ...) for m in matches]
EvaluateRisk ==
    /\ risk_in # NoneRec
    /\ risk_out = NoneRec
    /\ risk_out' = [intents |-> evaluate_matches(risk_in.matches, risk_in.current_price,
                                                  risk_in.account, risk_in.context,
                                                  risk_in.config, risk_in.atr_value)]
    /\ UNCHANGED <<risk_in, composerVars, gateVars, backtestVars, safetyVars, liveVars, replayVars, pipeVars, ledgerVars>>

NextRisk == EvaluateRisk

SpecRisk == InitRisk /\ [][NextRisk]_vars

(***************************************************************************)
(* Spec: run_backtest on every bar history of a bounded set.               *)
(***************************************************************************)
\* The bars a history is made of (cents, shares):
\*   base    an ordinary up bar, the volume and spread baseline
\*   quiet   a hammer on half the volume (STR-1, TEST-SUP-1)
\*   drive   a wide up bar on heavy volume (VAL-1, CONF-1)
\*   climax  a shooting star on heavy volume (CLIMAX-SELL-1, WEAK-1, ANOM-2)
\*   star    a shooting star on ordinary volume (WEAK-1)
\*   drop    a wide down bar that trades through the lows before it
BarTemplates ==
    {Bar(0, 1000, 1100,  900, 1050, 20000),
     Bar(0, 1000, 1010,  900, 1010, 10000),
     Bar(0, 1000, 1200, 1000, 1200, 50000),
     Bar(0, 1100, 1300, 1100, 1110, 50000),
     Bar(0, 1100, 1300, 1100, 1110, 20000),
     Bar(0, 1000, 1000,  700,  800, 20000)}

\* bars in chronological order: the k-th bar has timestamp k - 1
WithTimestamps(bs) == [k \in 1..Len(bs) |-> [bs[k] EXCEPT !.timestamp = k - 1]]

\* The configuration: the documented thresholds with windows short enough
\* to slide within MaxBars bars, 2 % risk per trade.
BaseConfig ==
    [vol_avg_window_N |-> 3, vol_low_lt |-> 80, vol_high_gt |-> 120, vol_ultra_high_gt |-> 180,
     spread_avg_window_M |-> 3, spread_narrow_lt |-> 80, spread_wide_gt |-> 120,
     trend_window_K |-> 3, trend_location_lookback |-> 3, trend_congestion_window |-> 2,
     trend_congestion_pct |-> 30,
     setup_window_X |-> 2,
     ctx1_trend_location_required |-> TRUE,
     ctx2_dominant_alignment_policy |-> "REDUCE_RISK",
     ctx3_congestion_awareness_required |-> TRUE,
     slippage_value |-> 0,
     hammer_lower_wick_ratio_min |-> 60, hammer_body_ratio_max |-> 33,
     hammer_upper_wick_ratio_max |-> 10,
     star_upper_wick_ratio_min |-> 60, star_body_ratio_max |-> 33,
     star_lower_wick_ratio_max |-> 10,
     doji_body_ratio_max |-> 25, doji_min_wick_ratio |-> 25,
     risk_pct_per_trade |-> 200, max_concurrent_positions |-> 1,
     countertrend_multiplier |-> 50, daily_loss_limit_pct |-> 200,
     volume_guard_enabled |-> TRUE, volume_guard_min_avg_volume |-> 10000,
     atr_period |-> 14, atr_stop_multiplier |-> 15, atr_enabled |-> FALSE]

\* no slippage with one position allowed, 1 % slippage with two allowed
BacktestConfigs ==
    {BaseConfig,
     [BaseConfig EXCEPT !.slippage_value = 100, !.max_concurrent_positions = 2]}

\* initial_cash: 10,000.00 in cents, so that cash x risk stays within 32 bits
InitialCash == 1000000

\* the locals of run_backtest as one record
Locals ==
    [i |-> loop_i, cash |-> cash, daily_pnl |-> daily_pnl, composer |-> composer,
     position |-> position, pending_intent |-> pending_intent, trades |-> trades,
     pipeline_events |-> pipeline_events, journal |-> journal]

StartLocals(st) ==
    /\ loop_i = st.i
    /\ cash = st.cash
    /\ daily_pnl = st.daily_pnl
    /\ composer = st.composer
    /\ position = st.position
    /\ pending_intent = st.pending_intent
    /\ trades = st.trades
    /\ pipeline_events = st.pipeline_events
    /\ journal = st.journal

SetLocals(st) ==
    /\ loop_i' = st.i
    /\ cash' = st.cash
    /\ daily_pnl' = st.daily_pnl
    /\ composer' = st.composer
    /\ position' = st.position
    /\ pending_intent' = st.pending_intent
    /\ trades' = st.trades
    /\ pipeline_events' = st.pipeline_events
    /\ journal' = st.journal

\* run_backtest up to the for loop
Init ==
    /\ ComposerIdle /\ GatesIdle /\ RiskIdle /\ SafetyIdle /\ LiveIdle /\ ReplayIdle /\ PipeIdle
    /\ LedgerIdle
    /\ bars_in \in {WithTimestamps(bs) : bs \in SeqsUpTo(BarTemplates, MaxBars)}
    /\ config_in \in BacktestConfigs
    /\ StartLocals(BacktestStart(InitialCash))
    /\ bt_result = NoneRec

\* one iteration of "for i in range(len(bars))"
BacktestBar ==
    /\ bt_result = NoneRec
    /\ loop_i < Len(bars_in)
    /\ SetLocals(backtest_step(Locals, bars_in, config_in))
    /\ UNCHANGED <<bars_in, config_in, bt_result, composerVars, gateVars, riskVars, safetyVars, liveVars, replayVars, pipeVars, ledgerVars>>

\* return BacktestResult(...)
ReturnResult ==
    /\ bt_result = NoneRec
    /\ loop_i = Len(bars_in)
    /\ bt_result' = [start_time |-> IF bars_in # <<>> THEN bars_in[1].timestamp ELSE NowTs,
                     end_time |-> IF bars_in # <<>> THEN bars_in[Len(bars_in)].timestamp
                                  ELSE NowTs,
                     initial_cash |-> InitialCash, final_cash |-> cash,
                     trades |-> trades, pipeline_events |-> pipeline_events]
    /\ UNCHANGED <<bars_in, config_in, localVars, composerVars, gateVars, riskVars, safetyVars, liveVars, replayVars, pipeVars, ledgerVars>>

Next == BacktestBar \/ ReturnResult

Spec == Init /\ [][Next]_vars

(***************************************************************************)
(* SpecSafety: one SafetyGuard under any sequence of record_pnl and check  *)
(* calls.                                                                  *)
(***************************************************************************)
\* the realized P&L of a closed trade, as the tests record it
GuardPnls == {-3000, -2000, -500, 50000}

\* the dates the calls are made on
GuardDates == {1, 2}

\* SafetyGuard(kill_switch=..., max_daily_loss_pct=..., initial_cash=100_000)
InitSafety ==
    /\ ComposerIdle /\ GatesIdle /\ RiskIdle /\ BacktestIdle /\ LiveIdle /\ ReplayIdle /\ PipeIdle
    /\ LedgerIdle
    /\ guard \in {SafetyGuard(k, p, 100000) : k \in BOOLEAN, p \in {3, 99}}
    /\ guard_calls = 0
    /\ pnl_seen = 0
    /\ guard_log = <<>>
    /\ safety_result = NoneRec

\* g.record_pnl(pnl, today=today)
RecordPnl ==
    /\ guard_calls < MaxGuardCalls
    /\ \E pnl \in GuardPnls : \E today \in GuardDates :
          /\ guard' = record_pnl(guard, pnl, today)
          /\ pnl_seen' = Max(pnl_seen, pnl)
          /\ guard_log' = Append(guard_log, [op |-> "record_pnl", pnl |-> pnl, today |-> today])
    /\ guard_calls' = guard_calls + 1
    /\ UNCHANGED <<safety_result, composerVars, gateVars, riskVars, backtestVars, liveVars, replayVars, pipeVars, ledgerVars>>

\* g.check(today=today)
Check ==
    /\ guard_calls < MaxGuardCalls
    /\ \E today \in GuardDates :
          LET c == check(guard, today)
          IN  /\ guard' = c.guard /\ safety_result' = c.result
              /\ guard_log' = Append(guard_log, [op |-> "check", pnl |-> 0, today |-> today])
    /\ guard_calls' = guard_calls + 1
    /\ UNCHANGED <<pnl_seen, composerVars, gateVars, riskVars, backtestVars, liveVars, replayVars, pipeVars, ledgerVars>>

NextSafety == RecordPnl \/ Check

SpecSafety == InitSafety /\ [][NextSafety]_vars

(***************************************************************************)
(* SpecLive: a live paper-trading session, one _run_paper_cycle after      *)
(* another on a store that grows by the bars each cycle ingests.           *)
(***************************************************************************)
\* --window of the paper command
LiveWindows == {3, 50}

\* run_live_loop(cfg, window) before its first cycle; the store is empty
InitLive ==
    /\ ComposerIdle /\ GatesIdle /\ RiskIdle /\ BacktestIdle /\ SafetyIdle /\ ReplayIdle /\ PipeIdle
    /\ LedgerIdle
    /\ live_cfg \in {[vpa |-> BaseConfig, window |-> w, initial_cash |-> InitialCash] :
                        w \in LiveWindows}
    /\ live_ses = [store |-> <<>>, has_position |-> FALSE, journal |-> <<>>,
                   dispatched |-> <<>>]
    /\ live_cycles = 0
    /\ live_prev = NoneRec
    /\ live_last = NoneRec

\* the session and the record of the cycle that has just ended
LiveAfter(cycle) ==
    /\ live_ses' = cycle.ses
    /\ live_last' = [start |-> cycle.start, end |-> cycle.end, result |-> cycle.result]

\* _run_paper_cycle(cfg, window): ingest what was fetched, then evaluate
PaperCycle ==
    /\ live_cycles < MaxLiveCycles
    /\ \E fetched \in SeqsUpTo(BarTemplates, 1) :
          LiveAfter(run_paper_cycle([live_ses EXCEPT !.store = ingest_latest(@, fetched)],
                                    IF live_last = NoneRec THEN <<>> ELSE live_last.end,
                                    live_cfg.window, live_cfg.vpa, live_cfg.initial_cash))
    /\ live_prev' = live_last
    /\ live_cycles' = live_cycles + 1
    /\ UNCHANGED <<live_cfg, composerVars, gateVars, riskVars, backtestVars, safetyVars, replayVars, pipeVars, ledgerVars>>

NextLive == PaperCycle

SpecLive == InitLive /\ [][NextLive]_vars

(***************************************************************************)
(* SpecReplay: one bar history replayed twice through run_pipeline, bar by *)
(* bar, each replay with a composer of its own and its own clock readings. *)
(***************************************************************************)
\* what datetime.now() may return during a call
ClockReadings == {1000, 1001}

\* The context a replay hands to run_pipeline at a bar: what analyze returns
\* for the bars so far, with the volume_trend the caller's snapshot carries
\* ("UNKNOWN" is analyze's own).
replay_context(bars, config, volume_trend) ==
    [analyze(bars, config) EXCEPT !.volume_trend = volume_trend]

\* one replay evaluates bar i (0-based) at clock reading now
replay_bar(r, inp, i, now) ==
    LET bars == SubSeq(inp.bars, 1, i + 1)
        piped == run_pipeline(bars, i, replay_context(bars, inp.config, inp.volume_trend),
                              AccountState(InitialCash, 0, 0), inp.config, r.composer,
                              NoneRec, now)
    IN  [composer |-> piped.candidates, events |-> Append(r.events, piped.result)]

InitReplay ==
    /\ ComposerIdle /\ GatesIdle /\ RiskIdle /\ BacktestIdle /\ SafetyIdle /\ LiveIdle /\ PipeIdle
    /\ LedgerIdle
    /\ replay_in \in {[bars |-> WithTimestamps(bs), config |-> BaseConfig, volume_trend |-> v] :
                         bs \in SeqsUpTo(BarTemplates, MaxReplayBars),
                         v \in {"UNKNOWN", "RISING", "FALLING"}}
    /\ replay_i = 0
    /\ replay_a = [composer |-> <<>>, events |-> <<>>]
    /\ replay_b = [composer |-> <<>>, events |-> <<>>]

\* both replays evaluate the next bar, each at its own time
ReplayBarTwice ==
    /\ replay_i < Len(replay_in.bars)
    /\ \E now_a \in ClockReadings : \E now_b \in ClockReadings :
          /\ replay_a' = replay_bar(replay_a, replay_in, replay_i, now_a)
          /\ replay_b' = replay_bar(replay_b, replay_in, replay_i, now_b)
    /\ replay_i' = replay_i + 1
    /\ UNCHANGED <<replay_in, composerVars, gateVars, riskVars, backtestVars, safetyVars,
                   liveVars, pipeVars, ledgerVars>>

NextReplay == ReplayBarTwice

SpecReplay == InitReplay /\ [][NextReplay]_vars

(***************************************************************************)
(* SpecPipeline: run_pipeline called bar after bar on one SetupComposer,   *)
(* each time with the snapshot of the context engine or with a stub the    *)
(* caller made of it (trend location unknown, congestion active).          *)
(***************************************************************************)
\* the ContextSnapshots a caller hands to run_pipeline for these bars
PipeContexts(bars, config) ==
    LET ctx == analyze(bars, config)
    IN  {[ctx EXCEPT !.trend_location = loc, !.congestion_active = cong] :
            loc \in {ctx.trend_location, "UNKNOWN"},
            cong \in {ctx.congestion_active, TRUE}}

\* the configurations of a session: the base one (the quiet bar's volume is the
\* guard's threshold), one with the threshold between the quiet and the base
\* bar's volume, and one with the guard off
PipeConfigs ==
    {BaseConfig,
     [BaseConfig EXCEPT !.volume_guard_min_avg_volume = 15000],
     [BaseConfig EXCEPT !.volume_guard_enabled = FALSE]}

InitPipeline ==
    /\ ComposerIdle /\ GatesIdle /\ RiskIdle /\ BacktestIdle /\ SafetyIdle /\ LiveIdle
    /\ ReplayIdle /\ LedgerIdle
    /\ pipe_in \in {[bars |-> WithTimestamps(bs), config |-> c] :
                       bs \in SeqsUpTo(BarTemplates, MaxPipeBars), c \in PipeConfigs}
    /\ pipe_i = 0
    /\ pipe_composer = <<>>
    /\ pipe_last = NoneRec

\* one call of run_pipeline on the bars up to pipe_i
PipelineBar ==
    /\ pipe_in # NoneRec
    /\ pipe_i < Len(pipe_in.bars)
    /\ LET bars == SubSeq(pipe_in.bars, 1, pipe_i + 1)
       IN  \E context \in PipeContexts(bars, pipe_in.config) :
              LET piped == run_pipeline(bars, pipe_i, context, AccountState(InitialCash, 0, 0),
                                        pipe_in.config, pipe_composer, NoneRec, NowTs)
              IN  /\ pipe_composer' = piped.candidates
                  /\ pipe_last' = [context |-> context, before |-> pipe_composer,
                                   result |-> piped.result]
    /\ pipe_i' = pipe_i + 1
    /\ UNCHANGED <<pipe_in, composerVars, gateVars, riskVars, backtestVars, safetyVars,
                   liveVars, replayVars, ledgerVars>>

\* run_pipeline called before any bar has arrived: an empty history, bar index 0
PipelineNoBars ==
    /\ pipe_in # NoneRec
    /\ pipe_in.bars = <<>>
    /\ pipe_last = NoneRec
    /\ \E context \in PipeContexts(<<>>, pipe_in.config) :
          LET piped == run_pipeline(<<>>, 0, context, AccountState(InitialCash, 0, 0),
                                    pipe_in.config, pipe_composer, NoneRec, NowTs)
          IN  /\ pipe_composer' = piped.candidates
              /\ pipe_last' = [context |-> context, before |-> pipe_composer,
                               result |-> piped.result]
    /\ UNCHANGED <<pipe_in, pipe_i, composerVars, gateVars, riskVars, backtestVars, safetyVars,
                   liveVars, replayVars, ledgerVars>>

NextPipeline == PipelineBar \/ PipelineNoBars

SpecPipeline == InitPipeline /\ [][NextPipeline]_vars

(***************************************************************************)
(* SpecContext: run_pipeline called bar after bar, as in SpecPipeline, on  *)
(* histories that hold bars without any range (open = high = low = close). *)
(***************************************************************************)
\* a flat bar at 10.00 on ordinary, heavy and thin volume, a flat bar at
\* 12.00, and the ordinary up bar of BarTemplates
ContextTemplates ==
    {Bar(0, 1000, 1000, 1000, 1000, 20000),
     Bar(0, 1000, 1000, 1000, 1000, 50000),
     Bar(0, 1000, 1000, 1000, 1000, 5000),
     Bar(0, 1200, 1200, 1200, 1200, 20000),
     Bar(0, 1000, 1100,  900, 1050, 20000)}

InitContext ==
    /\ ComposerIdle /\ GatesIdle /\ RiskIdle /\ BacktestIdle /\ SafetyIdle /\ LiveIdle
    /\ ReplayIdle /\ LedgerIdle
    /\ pipe_in \in {[bars |-> WithTimestamps(bs), config |-> BaseConfig] :
                       bs \in SeqsUpTo(ContextTemplates, MaxContextBars)}
    /\ pipe_i = 0
    /\ pipe_composer = <<>>
    /\ pipe_last = NoneRec

SpecContext == InitContext /\ [][NextPipeline]_vars

(***************************************************************************)
(* SpecLedger: one PaperExecutor on a fresh state file under any sequence  *)
(* of submit calls.                                                        *)
(***************************************************************************)
\* the symbols submitted to the executor
LedgerSymbols == {"SPY", "QQQ"}

\* the TradePlans submitted: two signal ids, both directions, a stop at 99.00
\* or a stop that is not a number
LedgerPlans ==
    {[signal_id |-> id, direction |-> d, stop_level |-> st] :
        id \in {"sig1", "sig2"}, d \in {"long", "short"}, st \in {990000, NoneVal}}

\* current_price: 99.00 (on the stop) and 100.00
LedgerPrices == {990000, 1000000}

\* PaperExecutor(path, initial_cash=10_000.0), max_cash_per_trade_pct = 5.0
InitLedger ==
    /\ ComposerIdle /\ GatesIdle /\ RiskIdle /\ BacktestIdle /\ SafetyIdle /\ LiveIdle
    /\ ReplayIdle /\ PipeIdle
    /\ ledger = PaperExecutor(LedgerSymbols, 5, 100000000)
    /\ ledger_calls = 0
    /\ ledger_last = NoneRec

\* ex.submit(symbol, plan, current_price), slippage_bps at its default 5.0
SubmitPlan ==
    /\ ledger # NoneRec
    /\ ledger_calls < MaxLedgerCalls
    /\ \E symbol \in LedgerSymbols, plan \in LedgerPlans, current_price \in LedgerPrices :
          LET done == submit(ledger, symbol, plan, current_price, 5)
          IN  /\ ledger' = done.ledger
              /\ ledger_last' = [symbol |-> symbol, plan |-> plan,
                                 current_price |-> current_price, before |-> ledger,
                                 seen |-> IF ledger_last = NoneRec THEN {}
                                          ELSE ledger_last.seen \cup {ledger_last.plan},
                                 order |-> done.order]
    /\ ledger_calls' = ledger_calls + 1
    /\ UNCHANGED <<composerVars, gateVars, riskVars, backtestVars, safetyVars, liveVars,
                   replayVars, pipeVars>>

NextLedger == SubmitPlan

SpecLedger == InitLedger /\ [][NextLedger]_vars

(***************************************************************************)
(* SpecLookahead: run_backtest on the histories made of the four bars that *)
(* open, complete and fill setups in both directions; every reachable      *)
(* state is compared with replays of histories that differ in one bar.     *)
(***************************************************************************)
\* base, quiet, drive and climax
LookaheadTemplates ==
    {Bar(0, 1000, 1100,  900, 1050, 20000),
     Bar(0, 1000, 1010,  900, 1010, 10000),
     Bar(0, 1000, 1200, 1000, 1200, 50000),
     Bar(0, 1100, 1300, 1100, 1110, 50000)}

InitLookahead ==
    /\ ComposerIdle /\ GatesIdle /\ RiskIdle /\ SafetyIdle /\ LiveIdle /\ ReplayIdle /\ PipeIdle
    /\ LedgerIdle
    /\ bars_in \in {WithTimestamps(bs) : bs \in SeqsUpTo(LookaheadTemplates, MaxLookaheadBars)}
    /\ config_in \in BacktestConfigs
    /\ StartLocals(BacktestStart(InitialCash))
    /\ bt_result = NoneRec

SpecLookahead == InitLookahead /\ [][Next]_vars

\* the locals of run_backtest(bars, config) after n loop iterations
RECURSIVE Replay(_, _, _)
Replay(bars, config, n) ==
    IF n = 0 THEN BacktestStart(InitialCash)
    ELSE backtest_step(Replay(bars, config, n - 1), bars, config)


(***************************************************************************)
(* Properties of the composer (checked under SpecComposer).                *)
(***************************************************************************)
\* positions of the CANDIDATE-state entries of a candidate list
Active(cands) == {k \in 1..Len(cands) : cands[k].state = "CANDIDATE"}

\* the statement's own reading of "expired", "invalidating signal", "completer"
PastWindow(c) == bar_index > c.expires_at_bar
LongKiller(sig) == \/ (sig.signal_class = "ANOMALY" /\ sig.priority >= 2)
                   \/ sig.id = "AVOID-NEWS-1"
ShortKiller(sig) == sig.signal_class \in {"VALIDATION", "STRENGTH"}
Killed(c) == \/ c.direction = "LONG" /\ AnyOf(signals_in, LongKiller)
             \/ c.direction = "SHORT" /\ AnyOf(signals_in, ShortKiller)
HasCompleter(c) ==
    \E j \in 1..Len(signals_in) : signals_in[j].id \in SETUP_DEFS[c.setup_id].completers
HasTrigger(setup_id) ==
    \E j \in 1..Len(signals_in) : signals_in[j].id = SETUP_DEFS[setup_id].trigger
\* a candidate of `before` that reaches the completion step of the call
Survivor(c) == c.state = "CANDIDATE" /\ ~PastWindow(c) /\ ~Killed(c)
MatchesOf(c) ==
    {j \in 1..Len(matches) : /\ matches[j].setup_id = c.setup_id
                             /\ matches[j].signals[1] = c.signals[1]}
StillCandidate(c) ==
    \E k \in Active(candidates) : /\ candidates[k].setup_id = c.setup_id
                                  /\ candidates[k].started_at_bar = c.started_at_bar

\* C1: at most one CANDIDATE per setup_id at any time, and a trigger that
\* arrives while a CANDIDATE of its setup is (and stays) active opens nothing:
\* the only CANDIDATE of the setup after the call is the old one.
C1_OneCandidatePerSetup ==
    /\ \A s \in SetupIds :
         Cardinality({k \in Active(candidates) : candidates[k].setup_id = s}) <= 1
    /\ phase = "returned" =>
         \A k \in Active(before) :
            (Survivor(before[k]) /\ ~HasCompleter(before[k]) /\ HasTrigger(before[k].setup_id))
            => \A j \in Active(candidates) :
                  candidates[j].setup_id = before[k].setup_id
                  => candidates[j].started_at_bar = before[k].started_at_bar

\* C1 witness: a second trigger arrived while the candidate was active
C1_Witness ==
    /\ phase = "returned"
    /\ \E k \in Active(before) :
         /\ Survivor(before[k]) /\ ~HasCompleter(before[k])
         /\ HasTrigger(before[k].setup_id)
         /\ StillCandidate(before[k])

\* C6: a candidate opened at bar b expires at b + window_X; a completer at a
\* bar up to b + window_X completes it (the candidate being still active);
\* at a later bar the candidate yields no match and is gone, and when the
\* call brings no trigger no candidate is active afterwards.
C6_WindowInclusive ==
    phase = "returned" =>
      /\ \A k \in Active(before) :
           LET c == before[k] IN
           /\ c.expires_at_bar = c.started_at_bar + window_x
           /\ (bar_index <= c.started_at_bar + window_x /\ ~Killed(c) /\ HasCompleter(c))
                => \E j \in MatchesOf(c) : matches[j].matched_at_bar = bar_index
           /\ bar_index > c.started_at_bar + window_x
                => /\ \A j \in 1..Len(matches) : matches[j].setup_id # c.setup_id
                   /\ ~StillCandidate(c)
      /\ ((\A k \in Active(before) : bar_index > before[k].started_at_bar + window_x)
          /\ (\A s \in SetupIds : ~HasTrigger(s)))
           => active_candidates(candidates) = 0 /\ matches = <<>>

\* C6 witness: the completer first arrives one bar after the window closed
C6_Witness ==
    /\ phase = "returned"
    /\ \E k \in Active(before) :
         /\ bar_index = before[k].started_at_bar + window_x + 1
         /\ HasCompleter(before[k])
    /\ matches = <<>>
    /\ active_candidates(candidates) = 0

\* C7: an ANOMALY of priority >= 2 or AVOID-NEWS-1 drops every LONG
\* candidate, a VALIDATION or STRENGTH signal drops every SHORT candidate;
\* a dropped candidate matches neither on that bar nor on a later one.
C7_InvalidationDrops ==
    /\ phase = "returned" =>
         \A k \in Active(before) :
            Killed(before[k]) => /\ ~StillCandidate(before[k])
                                 /\ MatchesOf(before[k]) = {}
    /\ \A j \in 1..Len(matches) :
         matches[j].signals[1].ts > last_dropped[matches[j].setup_id]

\* C7 witness: the invalidating signal came together with the completer of a
\* candidate that was still inside its window
C7_Witness ==
    /\ phase = "returned"
    /\ \E k \in Active(before) :
         /\ ~PastWindow(before[k]) /\ Killed(before[k]) /\ HasCompleter(before[k])
         /\ last_dropped[before[k].setup_id] = before[k].started_at_bar

\* C8: a completer arriving for an active candidate yields exactly one match
\* with the registry's setup_id and direction, the chain [trigger, first
\* completer], matched_at_bar = bar_index; the candidate leaves CANDIDATE.
C8_CompletionMatch ==
    phase = "returned" =>
      /\ \A k \in Active(before) :
           LET c == before[k] IN
           (Survivor(c) /\ HasCompleter(c)) =>
             /\ Cardinality(MatchesOf(c)) = 1
             /\ \A j \in MatchesOf(c) :
                  /\ matches[j].direction = SETUP_DEFS[c.setup_id].direction
                  /\ matches[j].matched_at_bar = bar_index
                  /\ Len(matches[j].signals) = 2
                  /\ matches[j].signals[1].id = SETUP_DEFS[c.setup_id].trigger
                  /\ \E i \in 1..Len(signals_in) :
                       /\ matches[j].signals[2] = signals_in[i]
                       /\ signals_in[i].id \in SETUP_DEFS[c.setup_id].completers
                       /\ \A h \in 1..(i - 1) :
                            signals_in[h].id \notin SETUP_DEFS[c.setup_id].completers
             /\ ~StillCandidate(c)
      /\ Len(matches) = Cardinality({k \in Active(before) :
                                       Survivor(before[k]) /\ HasCompleter(before[k])})

\* C8 witness: two completers of the candidate's setup arrived on one bar
C8_Witness ==
    /\ phase = "returned"
    /\ Len(matches) = 1
    /\ matches[1].setup_id = "ENTRY-SHORT-1"
    /\ Cardinality({i \in 1..Len(signals_in) : signals_in[i].id \in {"WEAK-1", "WEAK-2"}}) = 2

\* C9: CANDIDATEs before + opened - expired - invalidated - completed
\* = CANDIDATEs after, for every call.
nExpired == Cardinality({k \in Active(before) : PastWindow(before[k])})
nInvalidated == Cardinality({k \in Active(before) : ~PastWindow(before[k]) /\ Killed(before[k])})
nCompleted == Len(matches)
nOpened == Cardinality({k \in Active(candidates) : candidates[k].started_at_bar = bar_index})

C9_Conservation ==
    phase = "returned" =>
      active_candidates(before) + nOpened - nExpired - nInvalidated - nCompleted
        = active_candidates(candidates)

\* C9 witness: one call that expires, invalidates, completes and opens
C9_Witness ==
    /\ phase = "returned"
    /\ nExpired > 0 /\ nInvalidated > 0 /\ nCompleted > 0 /\ nOpened > 0

(***************************************************************************)
(* Properties of apply_gates (checked under SpecGates).                    *)
(***************************************************************************)
InSeq(x, seq) == \E k \in 1..Len(seq) : seq[k] = x

\* C10: gate monotonicity: every signal with requires_context_gate = FALSE
\* is in actionable and not in blocked, whatever the context and config.
C10_UngatedActionable ==
    gate_out # NoneRec =>
      \A k \in 1..Len(gate_in.signals) :
         ~gate_in.signals[k].requires_context_gate
         => /\ InSeq(gate_in.signals[k], gate_out.actionable)
            /\ ~InSeq(gate_in.signals[k], gate_out.blocked)

\* C10 witness: an ungated ANOMALY passes while every gate is armed and a
\* gated signal of the same call is blocked
C10_Witness ==
    /\ gate_out # NoneRec
    /\ gate_in.gates.ctx1_trend_location_required
    /\ gate_in.gates.ctx3_congestion_awareness_required
    /\ gate_in.gates.ctx2_dominant_alignment_policy = "DISALLOW"
    /\ gate_in.context.trend_location = "UNKNOWN"
    /\ gate_in.context.congestion_active
    /\ gate_in.context.dominant_alignment = "AGAINST"
    /\ Len(gate_out.blocked) = 1
    /\ \E k \in 1..Len(gate_out.actionable) :
         /\ ~gate_out.actionable[k].requires_context_gate
         /\ gate_out.actionable[k].signal_class = "ANOMALY"

(***************************************************************************)
(* Properties of the risk engine (checked under SpecRisk).                 *)
(***************************************************************************)
\* C4: hard-reject precedence: with open_position_count >=
\* max_concurrent_positions every match is REJECTED, whatever the stop,
\* alignment, ATR, equity or daily P&L; the bar yields no READY intent.
C4_MaxPositionsRejects ==
    (risk_out # NoneRec
     /\ risk_in.account.open_position_count >= risk_in.config.max_concurrent_positions)
    => /\ Len(risk_out.intents) = Len(risk_in.matches)
       /\ \A k \in 1..Len(risk_out.intents) : risk_out.intents[k].status = "REJECTED"

\* C4 witness: two matches rejected at the position limit although equity,
\* stop and daily P&L would all allow a READY intent
C4_Witness ==
    /\ risk_out # NoneRec
    /\ risk_in.account.open_position_count = risk_in.config.max_concurrent_positions
    /\ risk_in.account.equity > 0
    /\ risk_in.account.daily_realized_pnl = 0
    /\ Len(risk_out.intents) = 2
    /\ \A k \in 1..2 :
         /\ risk_out.intents[k].status = "REJECTED"
         /\ risk_out.intents[k].reject_reason = positions_reason(risk_in.config)
         /\ risk_in.matches[k].signals[1].bar_low = 900

\* C5 as stated: every READY intent has stop > 0, |current_price - stop| > 0
\* and size >= 1.  The ATR stop of a LONG, current_price - ATR x multiplier,
\* is not kept positive, so this is violated.
C5_StopInvariant ==
    risk_out # NoneRec =>
      \A k \in 1..Len(risk_out.intents) :
         risk_out.intents[k].status = "READY"
         => /\ risk_out.intents[k].stop > 0
            /\ Abs(risk_in.current_price - risk_out.intents[k].stop) > 0
            /\ risk_out.intents[k].size >= 1

(***************************************************************************)
(* Properties of run_backtest (checked under Spec).                        *)
(***************************************************************************)
\* the "entry" events journalled for bar b
EntriesAt(b) ==
    {k \in 1..Len(journal) : journal[k].event = "entry" /\ journal[k].bar_index = b}

\* e is the fill of intent n at the open of bar b (0-based), slippage applied:
\* price x 10000 = open x (10000 + bps) for a LONG, open x (10000 - bps) for a SHORT
IsFillOf(e, n, b) ==
    /\ e.event = "entry"
    /\ e.bar_index = b
    /\ e.intent_id = n.intent_id
    /\ e.qty = n.size
    /\ e.entry_price * 10000 =
         bars_in[b + 1].open * (IF n.direction = "LONG"
                                THEN 10000 + config_in.slippage_value
                                ELSE 10000 - config_in.slippage_value)

\* intent n, READY in the pipeline run of bar b, is never filled on bar b and,
\* once bar b + 1 has been replayed, has been filled there at the slipped open
FilledNextBar(n, b) ==
    /\ \A k \in EntriesAt(b) : journal[k].intent_id # n.intent_id
    /\ loop_i > b + 1 => \E k \in EntriesAt(b + 1) : IsFillOf(journal[k], n, b + 1)

\* C2 as stated: every intent that turns READY in the pipeline run of bar i
\* is filled at bar i+1, never on bar i, at bar[i+1].open x (1 +- bps/10000).
\* Violated: only the first READY intent of a bar is queued, and none is
\* queued while a position is held.
C2_EveryReadyFilled ==
    \A k \in 1..Len(pipeline_events) :
       \A m \in 1..Len(pipeline_events[k].intents) :
          pipeline_events[k].intents[m].status = "READY"
          => FilledNextBar(pipeline_events[k].intents[m], pipeline_events[k].bar_index)

\* C2 amended: the intent run_backtest queues at bar i (the first READY
\* intent of a pipeline run made with no position open, nothing pending and
\* a bar i+1 to come) is READY, is never filled on bar i, and is filled at
\* bar i+1 at bar[i+1].open x (1 + bps/10000) for a LONG and
\* bar[i+1].open x (1 - bps/10000) for a SHORT; nothing else is ever filled.
C2_QueuedFilledNextBar ==
    /\ \A k \in 1..Len(journal) :
          journal[k].event = "signal"
          => /\ journal[k].intent.status = "READY"
             /\ \E m \in 1..Len(pipeline_events) :
                   /\ pipeline_events[m].bar_index = journal[k].bar_index
                   /\ first_ready(pipeline_events[m].intents) = journal[k].intent
             /\ journal[k].bar_index + 1 < Len(bars_in)
             /\ FilledNextBar(journal[k].intent, journal[k].bar_index)
    /\ \A k \in 1..Len(journal) :
          journal[k].event = "entry"
          => \E m \in 1..(k - 1) :
                /\ journal[m].event = "signal"
                /\ journal[m].bar_index + 1 = journal[k].bar_index
                /\ IsFillOf(journal[k], journal[m].intent, journal[k].bar_index)

\* C2 witness: a SHORT queued at bar i has been filled at bar i+1, 1 % below
\* that bar's open
C2_Witness ==
    \E k \in 1..Len(journal) : \E m \in 1..Len(journal) :
       /\ journal[k].event = "signal"
       /\ journal[k].intent.direction = "SHORT"
       /\ journal[m].event = "entry"
       /\ journal[m].bar_index = journal[k].bar_index + 1
       /\ journal[m].intent_id = journal[k].intent.intent_id
       /\ config_in.slippage_value = 100
       /\ journal[m].entry_price < bars_in[journal[m].bar_index + 1].open

\* the history with every bar after its first n bars replaced by bar t
ReplaceFuture(bars, n, t) ==
    [k \in 1..Len(bars) |->
        IF k > n THEN [t EXCEPT !.timestamp = bars[k].timestamp] ELSE bars[k]]

\* the history with its j-th bar (1-based) replaced by bar t at the same time
ReplaceBar(bars, j, t) == [bars EXCEPT ![j] = [t EXCEPT !.timestamp = bars[j].timestamp]]

\* C3: no lookahead.  (a) The pipeline run of bar i ends at bar i: the
\* features it records are those of bar i.  (b) Everything run_backtest
\* holds once bars 0..i are replayed (the pipeline results recorded, the
\* intent queued, trades, cash) is what it holds on the history whose bars
\* j > i are all replaced by another bar, whichever bar that is.  (c) The
\* fill just made at bar i+1 is the same on any history whose bar i+1
\* differs in anything but its open.
C3_NoLookahead ==
    /\ \A k \in 1..Len(pipeline_events) :
          /\ pipeline_events[k].bar_index < loop_i
          /\ pipeline_events[k].features.ts
               = bars_in[pipeline_events[k].bar_index + 1].timestamp
    /\ loop_i < Len(bars_in)
       => \A t \in BarTemplates :
             Replay(ReplaceFuture(bars_in, loop_i, t), config_in, loop_i) = Locals
    /\ \A k \in 1..Len(journal) :
          (journal[k].event = "entry" /\ journal[k].bar_index = loop_i - 1)
          => \A t \in BarTemplates :
                t.open = bars_in[journal[k].bar_index + 1].open
                => LET other == Replay(ReplaceBar(bars_in, journal[k].bar_index + 1, t),
                                       config_in, journal[k].bar_index + 1)
                   IN  InSeq(journal[k], other.journal)

\* C3 witness: an intent was queued at bar i and filled at bar i+1, and the
\* history goes on after bar i+1
C3_Witness ==
    /\ loop_i < Len(bars_in)
    /\ position # NoneRec
    /\ \E k \in 1..Len(journal) :
          /\ journal[k].event = "entry"
          /\ journal[k].bar_index = loop_i - 1

(***************************************************************************)
(* Properties of SafetyGuard (checked under SpecSafety).                   *)
(***************************************************************************)
\* C11: with the kill switch on, every check returns allowed = false with
\* the kill-switch reason, after any record_pnl and check calls, whatever
\* the accumulated daily P&L and whatever the date.
C11_KillSwitchPrecedence ==
    (guard # NoneRec /\ safety_result # NoneRec)
    => (guard.kill_switch => safety_result = SafetyResult(FALSE, "Kill switch is ON"))

\* C11 witness: a check made with the kill switch on after a large profit
\* was recorded
C11_Witness ==
    /\ guard # NoneRec
    /\ guard.kill_switch
    /\ safety_result # NoneRec
    /\ guard.daily_pnl >= 50000

(***************************************************************************)
(* Properties of the live session (checked under SpecLive).                *)
(***************************************************************************)
\* No cycle of a live session has a READY intent, so none reaches the
\* dispatch loop: the composer a cycle builds sees one bar only.
LiveNeverDispatches ==
    live_ses # NoneRec
    => /\ live_ses.dispatched = <<>>
       /\ ((live_last # NoneRec /\ live_last.result # NoneRec)
           => live_last.result.intents = <<>>)

\* C13 (live session): the composer is carried from one bar evaluation to
\* the next, never replaced: the candidates the composer holds when a cycle
\* starts evaluating are those the cycle before ended with, so a candidate
\* opened at one evaluation is still tracked at the next.
\* Violated: every cycle builds a new SetupComposer.
C13_ComposerCarried ==
    (live_prev # NoneRec /\ live_last # NoneRec)
    => ((live_prev.start # NoneRec /\ live_last.start # NoneRec)
        => live_last.start = live_prev.end)

(***************************************************************************)
(* Properties of two replays (checked under SpecReplay).                   *)
(***************************************************************************)
\* the pipeline results of a replay with every signal's ts left out
SignalsUntimed(sigs) == [k \in 1..Len(sigs) |-> [sigs[k] EXCEPT !.ts = 0]]

\* C14: determinism.  Two replays of the same bars under the same config,
\* each from a fresh composer, have identical outputs at every bar: signals
\* with their timestamps and evidence, gate result, matches, intents and
\* rationale, in the same order.
\* Violated: a trend-level signal is stamped with the wall clock.
C14_Deterministic ==
    (replay_a # NoneRec /\ replay_b # NoneRec) => replay_a = replay_b

\* What does hold: the two replays agree on everything when the snapshot's
\* volume_trend is UNKNOWN, and otherwise on the ids, classes and evidence
\* of the signals, bar for bar.
ReplaysAgreeButForClock ==
    (replay_a # NoneRec /\ replay_b # NoneRec)
    => /\ replay_in.volume_trend = "UNKNOWN" => replay_a = replay_b
       /\ Len(replay_a.events) = Len(replay_b.events)
       /\ \A k \in 1..Len(replay_a.events) :
             SignalsUntimed(replay_a.events[k].signals)
                = SignalsUntimed(replay_b.events[k].signals)

\* C15: run_backtest is single-position.  After every iteration of the loop a
\* position and a pending intent never exist together; and an iteration that
\* leaves an intent pending started with no position and nothing pending,
\* ends with no position, has a later bar left, and queued the first READY
\* intent of the pipeline result of that bar, journalled as "signal".
QueuedOnlyWhenFlat ==
    pending_intent' # NoneRec =>
        /\ position = NoneRec /\ pending_intent = NoneRec /\ position' = NoneRec
        /\ loop_i + 1 < Len(bars_in)
        /\ loop_i' = loop_i + 1
        /\ Len(pipeline_events') = Len(pipeline_events) + 1
        /\ LET intents == pipeline_events'[Len(pipeline_events')].intents
           IN  \E k \in 1..Len(intents) :
                  /\ intents[k] = pending_intent'
                  /\ intents[k].status = "READY"
                  /\ \A j \in 1..(k-1) : intents[j].status # "READY"
        /\ journal' = Append(journal, [event |-> "signal", intent |-> pending_intent',
                                       bar_index |-> loop_i])

C15_SinglePosition ==
    /\ [](~(position # NoneRec /\ pending_intent # NoneRec))
    /\ [][QueuedOnlyWhenFlat]_vars

\* an intent is pending, queued from a bar whose pipeline result held two
\* READY intents, the second one different from the queued one
C15_Witness ==
    /\ pending_intent # NoneRec
    /\ position = NoneRec
    /\ pipeline_events # <<>>
    /\ LET intents == pipeline_events[Len(pipeline_events)].intents
       IN  /\ Len(intents) >= 2
           /\ intents[1] = pending_intent
           /\ intents[2].status = "READY"
           /\ intents[2] # intents[1]

\* the pipeline produced a READY intent while a position was open, and
\* nothing was queued
C15_HeldWitness ==
    /\ position # NoneRec
    /\ pending_intent = NoneRec
    /\ pipeline_events # <<>>
    /\ pipeline_events[Len(pipeline_events)].bar_index = loop_i - 1
    /\ first_ready(pipeline_events[Len(pipeline_events)].intents) # NoneRec

\* C16: in run_backtest a position that is open on a bar (held from an earlier
\* bar, or filled at this bar's open) is closed on that bar when a LONG sees
\* low <= stop, at stop x (1 - slippage), when a SHORT sees high >= stop, at
\* stop x (1 + slippage), and otherwise when the bar is the final one, at its
\* close; on any other bar it stays open and no trade is booked.  The booked
\* trade carries pnl = (exit - entry) x qty for LONG and (entry - exit) x qty
\* for SHORT, and cash grows by that pnl.
HeldOnBar ==
    IF position # NoneRec
    THEN [held |-> TRUE, direction |-> position.intent.direction, stop |-> position.stop,
          qty |-> position.qty]
    ELSE IF pending_intent # NoneRec
    THEN [held |-> TRUE, direction |-> pending_intent.direction,
          stop |-> pending_intent.stop, qty |-> pending_intent.size]
    ELSE [held |-> FALSE, direction |-> "", stop |-> 0, qty |-> 0]

\* the price the claim gives for closing h on bar number i (0-based), NoneVal
\* when the claim leaves the position open
ClaimedExit(h, i) ==
    LET bar == bars_in[i + 1]
        slip == config_in.slippage_value
    IN  IF h.direction = "LONG" /\ bar.low <= h.stop
        THEN (h.stop * (10000 - slip)) \div 10000
        ELSE IF h.direction = "SHORT" /\ bar.high >= h.stop
        THEN (h.stop * (10000 + slip)) \div 10000
        ELSE IF i = Len(bars_in) - 1 THEN bar.close
        ELSE NoneVal

BookedAsClaimed(h, exit) ==
    /\ position' = NoneRec
    /\ Len(trades') = Len(trades) + 1
    /\ SubSeq(trades', 1, Len(trades)) = trades
    /\ LET t == trades'[Len(trades')]
       IN  /\ t.direction = h.direction
           /\ t.qty = h.qty
           /\ position # NoneRec => t.entry_price = position.entry_price
           /\ t.exit_price = exit
           /\ t.exit_time = bars_in[loop_i + 1].timestamp
           /\ t.pnl = IF h.direction = "LONG" THEN (exit - t.entry_price) * t.qty
                      ELSE (t.entry_price - exit) * t.qty
           /\ cash' = cash + t.pnl

ExitsAsClaimed ==
    (loop_i < Len(bars_in) /\ loop_i' = loop_i + 1) =>
        LET h == HeldOnBar
        IN  IF ~h.held THEN trades' = trades
            ELSE IF ClaimedExit(h, loop_i) # NoneVal
            THEN BookedAsClaimed(h, ClaimedExit(h, loop_i))
            ELSE /\ trades' = trades
                 /\ position' # NoneRec
                 /\ position'.stop = h.stop
                 /\ position'.qty = h.qty
                 /\ position'.intent.direction = h.direction

C16_ExitsAndPnl == [][ExitsAsClaimed]_vars

\* trades booked by a LONG stop with slippage, and one booked at the final close
C16_Witness ==
    /\ config_in.slippage_value > 0
    /\ \E k \in 1..Len(journal) :
          /\ journal[k].event = "exit"
          /\ journal[k].reason = "stop"
          /\ journal[k].trade.direction = "LONG"
          /\ journal[k].trade.pnl # 0

C16_WitnessFinalBar ==
    \E k \in 1..Len(journal) :
        /\ journal[k].event = "exit"
        /\ journal[k].reason = "end_of_data"
        /\ journal[k].trade.pnl > 0

C16_WitnessShort ==
    \E k \in 1..Len(journal) :
        /\ journal[k].event = "exit"
        /\ journal[k].reason = "stop"
        /\ journal[k].trade.direction = "SHORT"

\* C17: only actionable signals reach the composer.  After every run_pipeline
\* call no signal the gates blocked on that bar is part of a candidate or of a
\* match; and when every trigger, completer and invalidating signal of the bar
\* is blocked, the candidates are those an empty bar leaves (expiry only) and
\* the call returns no match and no intent.
TouchesComposer(sig) ==
    \/ \E id \in DOMAIN SETUP_DEFS :
          sig.id = SETUP_DEFS[id].trigger \/ sig.id \in SETUP_DEFS[id].completers
    \/ (sig.signal_class = "ANOMALY" /\ sig.priority >= 2)
    \/ (sig.signal_class = "AVOIDANCE" /\ sig.id \in HARD_AVOIDANCE)
    \/ sig.signal_class \in {"VALIDATION", "STRENGTH"}

C17_BlockedNeverReachComposer ==
    (pipe_last # NoneRec /\ pipe_last.result.gate_result # NoneRec) =>
        LET r == pipe_last.result
            blocked == r.gate_result.blocked
        IN  /\ \A k \in 1..Len(blocked) :
                  /\ \A c \in 1..Len(pipe_composer) :
                        ~InSeq(blocked[k], pipe_composer[c].signals)
                  /\ \A m \in 1..Len(r.matches) : ~InSeq(blocked[k], r.matches[m].signals)
            /\ (\A k \in 1..Len(r.signals) :
                    TouchesComposer(r.signals[k]) => InSeq(r.signals[k], blocked))
               => /\ pipe_composer = expire_candidates(pipe_last.before, r.bar_index)
                  /\ r.matches = <<>>
                  /\ r.intents = <<>>

\* a call where the gates blocked the bar's trigger, completer or invalidating
\* signals, all of them, and feeding them to the composer would have changed
\* its candidates or produced a match
C17_Witness ==
    /\ pipe_last # NoneRec
    /\ pipe_last.result.gate_result # NoneRec
    /\ LET r == pipe_last.result
           fed == process_signals(pipe_last.before, r.signals, r.bar_index,
                                  pipe_in.config.setup_window_X)
       IN  /\ \E k \in 1..Len(r.gate_result.blocked) : TouchesComposer(r.gate_result.blocked[k])
           /\ \A k \in 1..Len(r.signals) :
                 TouchesComposer(r.signals[k]) => InSeq(r.signals[k], r.gate_result.blocked)
           /\ (fed.matches # <<>> \/ fed.candidates # pipe_composer)

\* ... where a completer was blocked and the match it would have made is missing
C17_WitnessCompleter ==
    /\ pipe_last # NoneRec
    /\ pipe_last.result.gate_result # NoneRec
    /\ LET r == pipe_last.result
           fed == process_signals(pipe_last.before, r.signals, r.bar_index,
                                  pipe_in.config.setup_window_X)
       IN  /\ fed.matches # <<>>
           /\ r.matches = <<>>

\* C18: with no daily snapshot apply_gates blocks a signal exactly when it has
\* requires_context_gate and CTX-1 is enabled with trend_location UNKNOWN, or
\* the CTX-2 policy is DISALLOW with dominant_alignment AGAINST, or CTX-3 is
\* enabled with congestion active and the signal an ANOMALY; the reason
\* recorded is that of the first of these in the order CTX-1, CTX-2, CTX-3.
BlocksCtx1(sig, ctx, gates) ==
    gates.ctx1_trend_location_required /\ ctx.trend_location = "UNKNOWN"

BlocksCtx2(sig, ctx, gates) ==
    gates.ctx2_dominant_alignment_policy = "DISALLOW" /\ ctx.dominant_alignment = "AGAINST"

BlocksCtx3(sig, ctx, gates) ==
    /\ gates.ctx3_congestion_awareness_required
    /\ ctx.congestion_active
    /\ sig.signal_class = "ANOMALY"

ClaimedReason(sig, ctx, gates) ==
    IF ~sig.requires_context_gate THEN "None"
    ELSE IF BlocksCtx1(sig, ctx, gates) THEN "CTX-1"
    ELSE IF BlocksCtx2(sig, ctx, gates) THEN "CTX-2"
    ELSE IF BlocksCtx3(sig, ctx, gates) THEN "CTX-3"
    ELSE "None"

C18_BlockedIffGated ==
    (gate_out # NoneRec /\ gate_in.daily_context = NoneRec) =>
        \A k \in 1..Len(gate_in.signals) :
            LET sig == gate_in.signals[k]
                reason == ClaimedReason(sig, gate_in.context, gate_in.gates)
            IN  /\ InSeq(sig, gate_out.blocked) <=> reason # "None"
                /\ InSeq(sig, gate_out.actionable) <=> reason = "None"
                /\ reason # "None" =>
                      /\ <<sig.id, sig.ts>> \in DOMAIN gate_out.block_reasons
                      /\ gate_out.block_reasons[<<sig.id, sig.ts>>] = reason

\* a call without daily snapshot where all three gates would block one
\* signal, which is blocked, next to an ungated signal, which is actionable
C18_Witness ==
    /\ gate_out # NoneRec
    /\ gate_in.daily_context = NoneRec
    /\ \E k, j \in 1..Len(gate_in.signals) :
          LET sig == gate_in.signals[k]
              other == gate_in.signals[j]
          IN  /\ sig.requires_context_gate
              /\ BlocksCtx1(sig, gate_in.context, gate_in.gates)
              /\ BlocksCtx2(sig, gate_in.context, gate_in.gates)
              /\ BlocksCtx3(sig, gate_in.context, gate_in.gates)
              /\ InSeq(sig, gate_out.blocked)
              /\ ~other.requires_context_gate
              /\ InSeq(other, gate_out.actionable)

\* under REDUCE_RISK an AGAINST alignment blocks nothing: a gated signal passes
C18_WitnessReduceRisk ==
    /\ gate_out # NoneRec
    /\ gate_in.daily_context = NoneRec
    /\ gate_in.gates.ctx2_dominant_alignment_policy = "REDUCE_RISK"
    /\ gate_in.context.dominant_alignment = "AGAINST"
    /\ \E k \in 1..Len(gate_out.actionable) : gate_out.actionable[k].requires_context_gate

\* C19: under CTX-2 policy DISALLOW every gated signal is judged by its own
\* alignment: with a daily snapshot, AGAINST when its direction_bias opposes
\* the daily trend (bullish against DOWN, bearish against UP), whatever the
\* snapshot's static dominant_alignment says; with none, the static
\* dominant_alignment.  A signal whose alignment is AGAINST is blocked, with
\* reason CTX-2 unless CTX-1 blocked it first; a signal whose alignment is not
\* AGAINST is actionable unless CTX-1 or CTX-3 blocks it.
OpposesDaily(daily_trend, bias) ==
    \/ (bias = "BULLISH" /\ daily_trend = "DOWN")
    \/ (bias \in {"BEARISH", "BEARISH_OR_WAIT"} /\ daily_trend = "UP")

JudgedAgainst(sig) ==
    IF gate_in.daily_context = NoneRec
    THEN gate_in.context.dominant_alignment = "AGAINST"
    ELSE OpposesDaily(gate_in.daily_context.trend, sig.direction_bias)

C19_WitnessStaticOverridden ==
    /\ gate_out # NoneRec
    /\ gate_in.gates.ctx2_dominant_alignment_policy = "DISALLOW"
    /\ gate_in.daily_context # NoneRec
    /\ gate_in.context.dominant_alignment = "AGAINST"
    /\ \E k \in 1..Len(gate_out.actionable) : gate_out.actionable[k].requires_context_gate

\* without a daily snapshot the static AGAINST blocks a gated signal by CTX-2
C19_WitnessStatic ==
    /\ gate_out # NoneRec
    /\ gate_in.gates.ctx2_dominant_alignment_policy = "DISALLOW"
    /\ gate_in.daily_context = NoneRec
    /\ gate_in.context.dominant_alignment = "AGAINST"
    /\ \E k \in 1..Len(gate_out.blocked) :
          gate_out.block_reasons[<<gate_out.blocked[k].id, gate_out.blocked[k].ts>>] = "CTX-2"

\* C20: apply_gates partitions its input.  The signals split into actionable
\* and blocked with nothing dropped and nothing duplicated (position by
\* position, the input is an interleaving of the two lists, each in input
\* order), and block_reasons has a reason under the key (id, ts) of every
\* blocked signal and no other key.
RECURSIVE IsInterleaving(_, _, _)
IsInterleaving(input, left, right) ==
    IF input = <<>> THEN left = <<>> /\ right = <<>>
    ELSE \/ (left # <<>> /\ Head(left) = Head(input)
             /\ IsInterleaving(Tail(input), Tail(left), right))
         \/ (right # <<>> /\ Head(right) = Head(input)
             /\ IsInterleaving(Tail(input), left, Tail(right)))

C20_GatesPartition ==
    gate_out # NoneRec =>
        /\ IsInterleaving(gate_in.signals, gate_out.actionable, gate_out.blocked)
        /\ \A k \in 1..Len(gate_out.actionable) :
              ~InSeq(gate_out.actionable[k], gate_out.blocked)
        /\ DOMAIN gate_out.block_reasons =
              {<<gate_out.blocked[k].id, gate_out.blocked[k].ts>> :
                  k \in 1..Len(gate_out.blocked)}
        /\ \A key \in DOMAIN gate_out.block_reasons :
              gate_out.block_reasons[key] \in {"CTX-1", "CTX-2", "CTX-3"}

\* a call that blocked one of two signals and let the other pass, the
\* blocked one coming first in the input
C20_Witness ==
    /\ gate_out # NoneRec
    /\ Len(gate_in.signals) = 2
    /\ gate_out.blocked = <<gate_in.signals[1]>>
    /\ gate_out.actionable = <<gate_in.signals[2]>>

\* a call that blocked the same signal twice: two blocked entries, one key
C20_WitnessSharedKey ==
    /\ gate_out # NoneRec
    /\ Len(gate_out.blocked) = 2
    /\ gate_out.blocked[1] = gate_out.blocked[2]

\* C21: the counter-trend adjustment of a READY intent.  Under policy
\* REDUCE_RISK and alignment AGAINST risk_pct is risk_pct_per_trade x
\* countertrend_multiplier and the rationale holds
\* "CTX-2:AGAINST(risk_reduced)"; under REDUCE_RISK and WITH risk_pct is
\* risk_pct_per_trade and the rationale holds "CTX-2:WITH"; in every other
\* case (UNKNOWN alignment, policy ALLOW or DISALLOW) risk_pct is
\* risk_pct_per_trade and the rationale holds no CTX-2 entry.
Ctx2Entries == {"CTX-2:AGAINST(risk_reduced)", "CTX-2:WITH"}

Ctx2EntriesOf(rationale) == {rationale[k] : k \in 1..Len(rationale)} \cap Ctx2Entries

C21_CountertrendAdjustment ==
    risk_out # NoneRec =>
      \A k \in 1..Len(risk_out.intents) :
         LET intent == risk_out.intents[k]
             config == risk_in.config
             alignment == risk_in.context.dominant_alignment
             reduce == config.ctx2_dominant_alignment_policy = "REDUCE_RISK"
         IN  intent.status = "READY" =>
               IF reduce /\ alignment = "AGAINST"
               THEN /\ intent.risk_pct * 100
                         = config.risk_pct_per_trade * config.countertrend_multiplier
                    /\ Ctx2EntriesOf(intent.rationale) = {"CTX-2:AGAINST(risk_reduced)"}
               ELSE IF reduce /\ alignment = "WITH"
               THEN /\ intent.risk_pct = config.risk_pct_per_trade
                    /\ Ctx2EntriesOf(intent.rationale) = {"CTX-2:WITH"}
               ELSE /\ intent.risk_pct = config.risk_pct_per_trade
                    /\ Ctx2EntriesOf(intent.rationale) = {}

\* a READY intent sized on the halved risk under REDUCE_RISK and AGAINST
C21_Witness ==
    /\ risk_out # NoneRec
    /\ risk_in.config.ctx2_dominant_alignment_policy = "REDUCE_RISK"
    /\ risk_in.context.dominant_alignment = "AGAINST"
    /\ \E k \in 1..Len(risk_out.intents) :
          /\ risk_out.intents[k].status = "READY"
          /\ risk_out.intents[k].risk_pct = 25
          /\ risk_out.intents[k].size > 1

\* a READY intent at full risk under DISALLOW although the alignment is AGAINST
C21_WitnessDisallow ==
    /\ risk_out # NoneRec
    /\ risk_in.config.ctx2_dominant_alignment_policy = "DISALLOW"
    /\ risk_in.context.dominant_alignment = "AGAINST"
    /\ \E k \in 1..Len(risk_out.intents) :
          /\ risk_out.intents[k].status = "READY"
          /\ risk_out.intents[k].risk_pct = 50

\* C22: the daily loss limit.  With risk.daily_loss_limit_pct set and
\* daily_realized_pnl <= -(equity x daily_loss_limit_pct) every intent is
\* REJECTED, never READY, and its reason is the daily-loss one, which cites
\* the percentage, unless the position limit rejected it first; with
\* daily_realized_pnl strictly above that bound, or no limit set, no intent
\* carries the daily-loss reason.
AtDailyLossLimit ==
    /\ risk_in.config.daily_loss_limit_pct # NoneVal
    /\ risk_in.account.daily_realized_pnl * 10000
          <= -(risk_in.account.equity * risk_in.config.daily_loss_limit_pct)

\* the reason as the code words it, for the percentages the configurations hold
CitedDailyLoss(pct) ==
    CASE pct = 200 -> "Daily loss limit (2.0%) reached"
      [] OTHER -> "Daily loss limit (?) reached"

C22_DailyLossRejects ==
    risk_out # NoneRec =>
      \A k \in 1..Len(risk_out.intents) :
         LET intent == risk_out.intents[k]
             full == risk_in.account.open_position_count
                       >= risk_in.config.max_concurrent_positions
             cited == CitedDailyLoss(risk_in.config.daily_loss_limit_pct)
         IN  IF AtDailyLossLimit
             THEN /\ intent.status = "REJECTED"
                  /\ ~full => intent.reject_reason = cited
             ELSE intent.reject_reason # cited

\* an account with equity 1000.00 whose day stands at -20.00, exactly 2 %,
\* below the position limit: the match is rejected for the daily loss
C22_Witness ==
    /\ risk_out # NoneRec
    /\ risk_in.account.equity = 100000
    /\ risk_in.account.daily_realized_pnl = -2000
    /\ risk_in.config.daily_loss_limit_pct = 200
    /\ risk_in.account.open_position_count < risk_in.config.max_concurrent_positions
    /\ risk_out.intents # <<>>
    /\ risk_out.intents[1].status = "REJECTED"
    /\ risk_out.intents[1].reject_reason = "Daily loss limit (2.0%) reached"

\* the same loss on equity 10000.00 is 0.2 %, above the bound: a READY intent
C22_WitnessWithin ==
    /\ risk_out # NoneRec
    /\ risk_in.account.equity = 1000000
    /\ risk_in.account.daily_realized_pnl = -2000
    /\ risk_in.config.daily_loss_limit_pct = 200
    /\ risk_out.intents # <<>>
    /\ risk_out.intents[1].status = "READY"

\* C23: a risk rejection is a value.  evaluate_risk returns one intent per
\* match, READY or REJECTED; every REJECTED intent has the intent id, the
\* setup id and the direction of its match, a rationale that starts with the
\* signal ids of the match, a reject_reason, and the risk plan stop 0,
\* risk_pct 0, size 0.
StartsWith(seq, prefix) ==
    Len(prefix) <= Len(seq) /\ SubSeq(seq, 1, Len(prefix)) = prefix

C23_RejectedIntentShape ==
    risk_out # NoneRec =>
      /\ Len(risk_out.intents) = Len(risk_in.matches)
      /\ \A k \in 1..Len(risk_out.intents) :
            LET intent == risk_out.intents[k]
                match == risk_in.matches[k]
            IN  /\ intent.status \in {"READY", "REJECTED"}
                /\ intent.status = "REJECTED" =>
                      /\ intent.intent_id = <<match.setup_id, match.matched_at_bar>>
                      /\ intent.setup = match.setup_id
                      /\ intent.direction = match.direction
                      /\ StartsWith(intent.rationale,
                                    [j \in 1..Len(match.signals) |-> match.signals[j].id])
                      /\ intent.reject_reason # "None"
                      /\ intent.stop = 0 /\ intent.risk_pct = 0 /\ intent.size = 0
                /\ intent.status = "READY" => intent.reject_reason = "None"

\* a match rejected because the stop sits on the price: the rationale
\* keeps the two signal ids and the CTX-2 entry added before sizing
C23_Witness ==
    /\ risk_out # NoneRec
    /\ \E k \in 1..Len(risk_out.intents) :
          /\ risk_out.intents[k].status = "REJECTED"
          /\ risk_out.intents[k].reject_reason
                = "Computed size is zero (stop too close or equity too low)"
          /\ Len(risk_out.intents[k].rationale) = 3
          /\ risk_out.intents[k].rationale[1] = risk_in.matches[k].signals[1].id


\* the bar history the last run_pipeline call of the session was given
PipeHistory == SubSeq(pipe_in.bars, 1, pipe_i)

PipelineResultFields == {"bar_index", "features", "signals", "gate_result", "matches", "intents", "daily_context"}

\* C24: run_pipeline never raises on market data: every call returns a
\* PipelineResult with all its fields, no exception leaves it, and a call with an
\* empty bar history returns the empty result (no features, no signals, no gate
\* result, no matches, no intents) instead of the ValueError extract_features
\* raises on an empty history; a call with bars always carries features.
C24_NeverRaises ==
    pipe_last # NoneRec =>
        LET r == pipe_last.result
        IN  /\ ~IsRaised(r)
            /\ DOMAIN r = PipelineResultFields
            /\ (PipeHistory = <<>>
                   => /\ r.features = NoneRec /\ r.signals = <<>> /\ r.gate_result = NoneRec
                      /\ r.matches = <<>> /\ r.intents = <<>>
                      /\ pipe_composer = pipe_last.before)
            /\ (PipeHistory # <<>> => r.features # NoneRec /\ ~IsRaised(r.features))

\* run_pipeline was called with an empty history and returned the empty result
C24_Witness ==
    /\ pipe_last # NoneRec
    /\ pipe_in.bars = <<>>
    /\ IsRaised(extract_features(PipeHistory, pipe_in.config))
    /\ pipe_last.result.features = NoneRec
    /\ pipe_last.result.bar_index = 0


\* the volumes of the up to vol.avg_window_N bars before the current bar of the
\* history the last call was given
PriorVolumes ==
    LET n == Len(PipeHistory)
        first == Max(1, n - pipe_in.config.vol_avg_window_N)
    IN  [k \in 1..(n - first) |-> PipeHistory[first + k - 1].volume]

\* their average is strictly below min_avg_volume (no prior bar: average 0)
PriorAverageBelowMin ==
    IF PriorVolumes = <<>> THEN 0 < pipe_in.config.volume_guard_min_avg_volume
    ELSE SumSeq(PriorVolumes) < pipe_in.config.volume_guard_min_avg_volume * Len(PriorVolumes)

PriorAverageAtMin ==
    /\ PriorVolumes # <<>>
    /\ SumSeq(PriorVolumes) = pipe_in.config.volume_guard_min_avg_volume * Len(PriorVolumes)

\* C25: with volume_guard.enabled and the average volume of the prior
\* vol.avg_window_N bars strictly below min_avg_volume, run_pipeline returns a
\* result with only features (no signals, no gate result, no matches, no
\* intents) and leaves the composer alone; otherwise, an average equal to
\* min_avg_volume included, the bar goes through every stage.
C25_VolumeGuard ==
    (pipe_last # NoneRec /\ PipeHistory # <<>>) =>
        LET r == pipe_last.result
        IN  IF pipe_in.config.volume_guard_enabled /\ PriorAverageBelowMin
            THEN /\ r.features = extract_features(PipeHistory, pipe_in.config)
                 /\ r.signals = <<>> /\ r.gate_result = NoneRec
                 /\ r.matches = <<>> /\ r.intents = <<>>
                 /\ pipe_composer = pipe_last.before
            ELSE /\ r.features = extract_features(PipeHistory, pipe_in.config)
                 /\ r.gate_result # NoneRec
                 /\ Len(r.signals) = Len(r.gate_result.actionable) + Len(r.gate_result.blocked)

\* a bar whose shape fires a rule (the quiet hammer) arrives after prior bars
\* whose average volume is below the threshold: only its features come back
C25_Witness ==
    /\ pipe_last # NoneRec
    /\ Len(PipeHistory) >= 2
    /\ pipe_in.config.volume_guard_enabled
    /\ PriorAverageBelowMin
    /\ pipe_last.result.signals = <<>>
    /\ pipe_last.result.features # NoneRec
    /\ run_pipeline_stages(PipeHistory, pipe_i - 1, pipe_last.context, AccountState(InitialCash, 0, 0), [pipe_in.config EXCEPT !.volume_guard_enabled = FALSE], pipe_last.before, NoneRec, NowTs).result.signals # <<>>

\* the prior average equals min_avg_volume and the bar is evaluated: signals
C25_WitnessBoundary ==
    /\ pipe_last # NoneRec
    /\ pipe_in.config.volume_guard_enabled
    /\ PriorAverageAtMin
    /\ pipe_last.result.gate_result # NoneRec
    /\ pipe_last.result.signals # <<>>


ExitedOnBar(k) == \E t \in 1..Len(trades) : trades[t].exit_time = bars_in[k + 1].timestamp

C26_WitnessNoTrade ==
    /\ bt_result # NoneRec
    /\ bt_result.trades = <<>>
    /\ Len(bars_in) >= 2
    /\ Len(bt_result.pipeline_events) = Len(bars_in)


\* the loop iteration of this step ran the pipeline: it appended one event
PipelineRan ==
    /\ Len(pipeline_events') = Len(pipeline_events) + 1
    /\ SubSeq(pipeline_events', 1, Len(pipeline_events)) = pipeline_events
    /\ pipeline_events'[Len(pipeline_events')].bar_index = loop_i

\* the loop iteration of this step left the pipeline and the composer alone
PipelineSkipped == pipeline_events' = pipeline_events /\ composer' = composer

\* the composer after the step is the one before it, advanced by the
\* actionable signals of the event the step appended
ComposerAdvanced ==
    LET r == pipeline_events'[Len(pipeline_events')]
    IN  composer' = IF r.gate_result = NoneRec THEN composer
                    ELSE process_signals(composer, r.gate_result.actionable, loop_i,
                                         config_in.setup_window_X).candidates

\* C27 as stated: on a bar with a position open (held, or filled at its open)
\* the pipeline is not run and the composer is not advanced
PipelineOnlyWhenFlat ==
    (loop_i < Len(bars_in) /\ loop_i' = loop_i + 1 /\ HeldOnBar.held) => PipelineSkipped

C27_PipelineOnlyWhenFlat == [][PipelineOnlyWhenFlat]_vars

\* C27 (amended): the driver skips the pipeline, and with it the composer, only
\* on a bar on which the open position is closed (stop hit or final bar); on
\* every other bar, one on which a position stays open included, it runs the
\* pipeline once and advances the composer, and while the position stays open
\* it queues nothing.
PipelineUnlessExit ==
    (loop_i < Len(bars_in) /\ loop_i' = loop_i + 1) =>
        IF HeldOnBar.held /\ ClaimedExit(HeldOnBar, loop_i) # NoneVal
        THEN PipelineSkipped /\ pending_intent' = NoneRec
        ELSE /\ PipelineRan
             /\ ComposerAdvanced
             /\ HeldOnBar.held => (position' # NoneRec /\ pending_intent' = NoneRec)

C27_PipelineUnlessExit == [][PipelineUnlessExit]_vars

\* a position was open on the last bar (filled at its open) and was not closed
\* on it, and that bar's pipeline run produced signals and fed the composer
C27_Witness ==
    /\ position # NoneRec
    /\ position.entry_bar_idx <= loop_i - 1
    /\ pipeline_events # <<>>
    /\ pipeline_events[Len(pipeline_events)].bar_index = loop_i - 1
    /\ pipeline_events[Len(pipeline_events)].signals # <<>>
    /\ composer # <<>>

\* a trade was booked on the last bar and that bar has no event
C27_WitnessExit ==
    /\ trades # <<>>
    /\ loop_i >= 1
    /\ trades[Len(trades)].exit_time = bars_in[loop_i].timestamp
    /\ \A e \in 1..Len(pipeline_events) : pipeline_events[e].bar_index # loop_i - 1


\* the sum of the pnl of the trades of a list
SumPnl(ts) == SumSeq([k \in 1..Len(ts) |-> ts[k].pnl])

\* C28: for every run_backtest final_cash = initial_cash + the sum of the pnl of
\* the recorded trades (cash keeps that relation after every bar of the loop);
\* with no trades, an empty bar list included, final_cash = initial_cash.
C28_CashIsInitialPlusPnl ==
    /\ cash = InitialCash + SumPnl(trades)
    /\ (bt_result # NoneRec
           => /\ bt_result.initial_cash = InitialCash
              /\ bt_result.final_cash = bt_result.initial_cash + SumPnl(bt_result.trades)
              /\ (bt_result.trades = <<>> => bt_result.final_cash = bt_result.initial_cash)
              /\ (bars_in = <<>> => bt_result.trades = <<>>))

\* a returned backtest with a losing trade: final_cash below initial_cash
C28_Witness ==
    /\ bt_result # NoneRec
    /\ bt_result.trades # <<>>
    /\ SumPnl(bt_result.trades) < 0
    /\ bt_result.final_cash < bt_result.initial_cash

\* a returned backtest with a winning trade
C28_WitnessGain ==
    /\ bt_result # NoneRec
    /\ bt_result.trades # <<>>
    /\ bt_result.final_cash > bt_result.initial_cash

\* run_backtest of an empty bar list
C28_WitnessEmpty ==
    /\ bt_result # NoneRec
    /\ bars_in = <<>>
    /\ bt_result.final_cash = bt_result.initial_cash


RECURSIVE DaySum(_, _)
\* the P&L recorded on date d by the calls at the end of log that were all
\* made on d: the day's accumulated P&L when the last call was made on d
DaySum(log, d) ==
    IF log = <<>> THEN 0
    ELSE LET last == log[Len(log)]
         IN  IF last.today # d THEN 0
             ELSE last.pnl + DaySum(SubSeq(log, 1, Len(log) - 1), d)

\* an accumulated P&L that is a loss of at least initial_cash x max_daily_loss_pct / 100
AtLossLimit(acc) == acc < 0 /\ (0 - acc) * 100 >= guard.initial_cash * guard.max_daily_loss_pct

\* the last call made on the guard was a check
LastCallIsCheck == guard_log # <<>> /\ guard_log[Len(guard_log)].op = "check"

\* C29: with the kill switch off, a check made on a date returns allowed =
\* false exactly when the P&L accumulated by the record_pnl calls of that date
\* is a loss of at least initial_cash x max_daily_loss_pct / 100: a loss exactly
\* at the limit blocks, and a gain that brings the loss under the limit allows.
C29_BlockedIffAtLossLimit ==
    (guard # NoneRec /\ ~guard.kill_switch /\ LastCallIsCheck) =>
        LET acc == DaySum(guard_log, guard_log[Len(guard_log)].today)
        IN  /\ (safety_result.allowed = FALSE) <=> AtLossLimit(acc)
            /\ guard.daily_pnl = acc
            /\ AtLossLimit(acc) => safety_result.reason = "Daily loss limit breached"

\* a check blocked by a day's loss of exactly the limit
C29_Witness ==
    /\ guard # NoneRec /\ ~guard.kill_switch /\ LastCallIsCheck
    /\ (0 - DaySum(guard_log, guard_log[Len(guard_log)].today)) * 100 = guard.initial_cash * guard.max_daily_loss_pct
    /\ safety_result.allowed = FALSE

\* a check allowed after a gain brought a loss at the limit back under it
C29_WitnessRecovered ==
    /\ guard # NoneRec /\ ~guard.kill_switch /\ LastCallIsCheck
    /\ safety_result.allowed
    /\ \E k \in 2..Len(guard_log) :
          /\ \A j \in 1..Len(guard_log) : guard_log[j].today = guard_log[k].today
          /\ guard_log[k].pnl > 0
          /\ AtLossLimit(DaySum(SubSeq(guard_log, 1, k - 1), guard_log[k].today))

\* the call this step makes on the guard
ThisCall == guard_log'[Len(guard_log')]

\* C30 as stated: every check and every record_pnl made with a date other than
\* the guard's last date starts the day at 0
NewDateAlwaysResets ==
    (guard_log' # guard_log /\ ThisCall.today # guard.trading_date) =>
        /\ guard'.trading_date = ThisCall.today
        /\ guard'.daily_pnl = ThisCall.pnl

C30_NewDateAlwaysResets == [][NewDateAlwaysResets]_vars

\* C30 (amended): record_pnl, and check with the kill switch off, called with a
\* date other than the guard's last date set daily_pnl to 0 before they take
\* effect: the day then holds the recorded pnl alone, and the check is allowed;
\* on the same date record_pnl adds to the day.  With the kill switch on check
\* returns its refusal before the date is looked at and leaves the guard as it is.
NewDateResets ==
    guard_log' # guard_log =>
        IF ThisCall.op = "check" /\ guard.kill_switch
        THEN guard' = guard /\ safety_result'.allowed = FALSE
        ELSE IF ThisCall.today # guard.trading_date
        THEN /\ guard'.trading_date = ThisCall.today
             /\ guard'.daily_pnl = ThisCall.pnl
             /\ ThisCall.op = "check" => safety_result'.allowed
        ELSE /\ guard'.trading_date = guard.trading_date
             /\ guard'.daily_pnl = guard.daily_pnl + ThisCall.pnl

C30_NewDateResets == [][NewDateResets]_vars

\* a loss at the limit was recorded on one date and the check of another date,
\* made right after it, is allowed with the day at 0
C30_Witness ==
    /\ guard # NoneRec /\ ~guard.kill_switch
    /\ Len(guard_log) >= 2
    /\ LET call == guard_log[Len(guard_log)]
           earlier == guard_log[Len(guard_log) - 1]
       IN  /\ call.op = "check"
           /\ earlier.op = "record_pnl"
           /\ earlier.today # call.today
           /\ earlier.pnl * 100 <= 0 - guard.initial_cash * guard.max_daily_loss_pct
    /\ safety_result.allowed
    /\ guard.daily_pnl = 0

\* with the kill switch on, a check of another date left the loss of the
\* earlier date in daily_pnl
C30_WitnessKillSwitch ==
    /\ guard # NoneRec /\ guard.kill_switch
    /\ LastCallIsCheck
    /\ guard_log[Len(guard_log)].today # guard.trading_date
    /\ guard.daily_pnl < 0


(***************************************************************************)
(* Properties of PaperExecutor (checked under SpecLedger).                 *)
(***************************************************************************)
\* the last submit call created nothing: no order returned, tables untouched
LastSubmitChangedNothing == ledger_last.order = NoneRec /\ ledger = ledger_last.before

\* a submission for a symbol whose position is open returns None and changes
\* nothing
OpenPositionRejects ==
    (ledger_last # NoneRec /\ has_open_position(ledger_last.before, ledger_last.symbol))
        => LastSubmitChangedNothing

\* C31: submission is idempotent relative to the intent id: a submission of an
\* intent (the plan with its id) that was submitted before creates no order,
\* fill, position change or cash change, and a submission for a symbol whose
\* position is open returns None and changes nothing.
C31_IdempotentById ==
    ledger_last # NoneRec =>
        /\ (ledger_last.plan \in ledger_last.seen => LastSubmitChangedNothing)
        /\ (has_open_position(ledger_last.before, ledger_last.symbol)
               => LastSubmitChangedNothing)


(***************************************************************************)
(* Properties of the context engine (checked under SpecContext).           *)
(***************************************************************************)
\* the location window of the history the last call was given
LocationWindow == LastN(PipeHistory, pipe_in.config.trend_location_lookback)

\* fewer than 2 bars in the window, or highest = lowest
LocationDegenerate == Len(LocationWindow) < 2 \/ high_low_range(LocationWindow) <= 0

\* the last call was handed the snapshot the context engine makes of its history
EngineContextUsed ==
    /\ pipe_last # NoneRec
    /\ PipeHistory # <<>>
    /\ pipe_last.context = analyze(PipeHistory, pipe_in.config)

\* C32: the context engine reports trend_location = UNKNOWN whenever the
\* location window has fewer than 2 bars or no range, so that CTX-1 lets no
\* gated signal of such a bar through; TOP, BOTTOM and MIDDLE are reported for
\* a positive range only.
C32_DegenerateIsUnknown ==
    EngineContextUsed =>
        /\ LocationDegenerate <=> pipe_last.context.trend_location = "UNKNOWN"
        /\ (LocationDegenerate /\ pipe_last.result.gate_result # NoneRec)
               => \A k \in 1..Len(pipe_last.result.gate_result.actionable) :
                     ~pipe_last.result.gate_result.actionable[k].requires_context_gate

\* what holds of the code: UNKNOWN for a window of fewer than 2 bars only, and
\* MIDDLE for a window of 2 or more bars without range
DegenerateIsMiddle ==
    EngineContextUsed =>
        /\ Len(LocationWindow) < 2 <=> pipe_last.context.trend_location = "UNKNOWN"
        /\ (Len(LocationWindow) >= 2 /\ high_low_range(LocationWindow) <= 0)
               => pipe_last.context.trend_location = "MIDDLE"

\* a gated signal of a bar of a flat history passed CTX-1 with location MIDDLE
FlatHistoryPassesGate ==
    /\ EngineContextUsed
    /\ LocationDegenerate
    /\ pipe_last.context.trend_location = "MIDDLE"
    /\ pipe_last.result.gate_result # NoneRec
    /\ \E k \in 1..Len(pipe_last.result.gate_result.actionable) :
          pipe_last.result.gate_result.actionable[k].requires_context_gate


(***************************************************************************)
(* Further properties of SetupComposer (checked under SpecComposer).       *)
(***************************************************************************)
\* the call that has just returned was handed a signal with this id
Received(id) == \E i \in 1..Len(signals_in) : signals_in[i].id = id

\* ... and a completer of setup s
ReceivedCompleter(s) == \E i \in 1..Len(signals_in) : signals_in[i].id \in SETUP_DEFS[s].completers

\* C33: a trigger and a completer of one setup arriving on the same bar never
\* complete the candidate that trigger opens: the trigger of every SetupMatch
\* arrived on a bar strictly before matched_at_bar, in a candidate the composer
\* already held when the call began, and the candidate opened on this bar is
\* left a CANDIDATE holding its trigger alone.
C33_NoSameBarCompletion ==
    phase = "returned" =>
        /\ \A j \in 1..Len(matches) :
              /\ matches[j].matched_at_bar = bar_index
              /\ matches[j].signals[1].ts < matches[j].matched_at_bar
              /\ \E k \in 1..Len(before) :
                    /\ before[k].setup_id = matches[j].setup_id
                    /\ before[k].started_at_bar < bar_index
                    /\ before[k].signals = <<matches[j].signals[1]>>
        /\ \A k \in 1..Len(candidates) :
              candidates[k].started_at_bar = bar_index
                  => /\ candidates[k].state = "CANDIDATE"
                     /\ Len(candidates[k].signals) = 1
                     /\ candidates[k].signals[1].ts = bar_index

\* CLIMAX-SELL-1 and its completer WEAK-1 arrive on one bar with no short
\* candidate held: a candidate is opened and nothing matches
C33_Witness ==
    /\ phase = "returned"
    /\ Received("CLIMAX-SELL-1") /\ Received("WEAK-1")
    /\ \A k \in 1..Len(before) : before[k].setup_id # "ENTRY-SHORT-1"
    /\ matches = <<>>
    /\ \E k \in 1..Len(candidates) :
          /\ candidates[k].setup_id = "ENTRY-SHORT-1"
          /\ candidates[k].state = "CANDIDATE"
          /\ candidates[k].started_at_bar = bar_index


\* C34: within one bar invalidation takes precedence over completion: a
\* candidate inside its window whose direction is invalidated by the bar's
\* signals is dropped although the same signals hold a completer of its
\* setup; no SetupMatch of that setup is emitted on the bar and the candidate
\* is not kept in any state.
C34_InvalidationBeforeCompletion ==
    phase = "returned" =>
        \A k \in Active(before) :
            (~PastWindow(before[k]) /\ Killed(before[k]) /\ HasCompleter(before[k]))
            => /\ \A j \in 1..Len(matches) : matches[j].setup_id # before[k].setup_id
               /\ \A j \in 1..Len(candidates) :
                     candidates[j].setup_id = before[k].setup_id
                     => candidates[j].started_at_bar = bar_index

\* a SHORT candidate inside its window receives its completer WEAK-1 together
\* with a VALIDATION signal: no match, no candidate left
C34_Witness ==
    /\ phase = "returned"
    /\ Received("WEAK-1") /\ Received("VAL-1")
    /\ \E k \in Active(before) :
          /\ before[k].setup_id = "ENTRY-SHORT-1"
          /\ ~PastWindow(before[k])
    /\ \A j \in 1..Len(matches) : matches[j].setup_id # "ENTRY-SHORT-1"
    /\ \A j \in 1..Len(candidates) : candidates[j].setup_id # "ENTRY-SHORT-1"


\* C35: each candidate yields at most one SetupMatch.  The trigger of every
\* match returned by a call is later than the trigger of the candidate of
\* that setup completed last before the call, so a completer arriving after
\* the completion matches only a candidate opened by a new trigger; and one
\* call returns at most one match per setup_id.
MatchesAreOfNewCandidates ==
    phase' = "returned" =>
        /\ \A j \in 1..Len(matches') :
              matches'[j].signals[1].ts > last_completed[matches'[j].setup_id]
        /\ \A i, j \in 1..Len(matches') :
              matches'[i].setup_id = matches'[j].setup_id => i = j
        /\ \A k \in 1..Len(candidates) :
              (candidates[k].state = "READY"
               /\ ~\E h \in Active(candidates) : candidates[h].setup_id = candidates[k].setup_id)
              => \A j \in 1..Len(matches') : matches'[j].setup_id # candidates[k].setup_id
C35_OneMatchPerCandidate == [][MatchesAreOfNewCandidates]_vars

\* a completer of ENTRY-SHORT-1 arrives on the call after the one that
\* completed the setup's candidate, no new trigger having come: no match
C35_Witness ==
    /\ phase = "returned"
    /\ ReceivedCompleter("ENTRY-SHORT-1")
    /\ \E k \in 1..Len(before) : before[k].setup_id = "ENTRY-SHORT-1" /\ before[k].state = "READY"
    /\ \A k \in Active(before) : before[k].setup_id # "ENTRY-SHORT-1"
    /\ last_completed["ENTRY-SHORT-1"] >= 0
    /\ matches = <<>>


\* the setup has no candidate that is still being tracked when the call
\* reaches _open_new_candidates: none was held, or the one held has expired,
\* has been invalidated or has completed on this very bar
Released(s) ==
    \A k \in Active(before) :
        before[k].setup_id = s
        => (PastWindow(before[k]) \/ Killed(before[k]) \/ HasCompleter(before[k]))

\* the candidates opened for setup s by the call that has just returned
OpenedFor(s) ==
    {k \in Active(candidates) : /\ candidates[k].setup_id = s
                                /\ candidates[k].started_at_bar = bar_index}

\* C36: the composer never gets stuck.  Once the candidate of a setup has
\* expired, been invalidated or completed (on an earlier bar or on this one),
\* a trigger of the setup opens exactly one new CANDIDATE holding that
\* trigger, with expires_at_bar = bar_index + window_X.
C36_TriggerReopens ==
    phase = "returned" =>
        \A s \in SetupIds :
            (HasTrigger(s) /\ Released(s))
            => /\ Cardinality(OpenedFor(s)) = 1
               /\ \A k \in OpenedFor(s) :
                     /\ candidates[k].expires_at_bar = bar_index + window_x
                     /\ candidates[k].direction = SETUP_DEFS[s].direction
                     /\ Len(candidates[k].signals) = 1
                     /\ candidates[k].signals[1].id = SETUP_DEFS[s].trigger
                     /\ candidates[k].signals[1].ts = bar_index

\* the candidate of ENTRY-LONG-1 completes on the bar that also brings the
\* setup's trigger again: the match is returned and a new candidate is open
C36_Witness ==
    /\ phase = "returned"
    /\ HasTrigger("ENTRY-LONG-1")
    /\ \E k \in Active(before) :
          /\ before[k].setup_id = "ENTRY-LONG-1"
          /\ Survivor(before[k]) /\ HasCompleter(before[k])
    /\ \E j \in 1..Len(matches) : matches[j].setup_id = "ENTRY-LONG-1"
    /\ OpenedFor("ENTRY-LONG-1") # {}

\* ... and the trigger arrives on a later bar than the one that expired,
\* invalidated or completed the old candidate
C36_WitnessLater ==
    /\ phase = "returned"
    /\ \E s \in SetupIds :
          /\ HasTrigger(s)
          /\ \A k \in Active(before) : before[k].setup_id # s
          /\ (last_completed[s] >= 0 \/ last_dropped[s] >= 0)
          /\ OpenedFor(s) # {}


(***************************************************************************)
(* Further properties of run_backtest (checked under Spec).                *)
(***************************************************************************)
\* number of journal events of one kind
JournalCount(kind) == Cardinality({k \in 1..Len(journal) : journal[k].event = kind})

\* the "signal" event at position k of the journal is answered: its intent
\* is filled on the bar after the one that queued it, or that bar is yet to come
SignalFilledNextBar(k) ==
    \/ /\ k = Len(journal)
       /\ pending_intent = journal[k].intent
       /\ position = NoneRec
       /\ loop_i = journal[k].bar_index + 1
       /\ loop_i < Len(bars_in)
    \/ /\ k < Len(journal)
       /\ journal[k + 1].event = "entry"
       /\ journal[k + 1].intent_id = journal[k].intent.intent_id
       /\ journal[k + 1].bar_index = journal[k].bar_index + 1

\* the "entry" event at position k of the journal is answered: its position
\* is closed by the next event, on a bar of the history, or it is still open
\* and the loop has bars left
EntryClosed(k) ==
    \/ /\ k = Len(journal)
       /\ position # NoneRec
       /\ position.entry_bar_idx = journal[k].bar_index
       /\ pending_intent = NoneRec
       /\ loop_i < Len(bars_in)
    \/ /\ k < Len(journal)
       /\ journal[k + 1].event = "exit"
       /\ journal[k + 1].trade.entry_time = bars_in[journal[k].bar_index + 1].timestamp
       /\ journal[k + 1].trade.exit_time >= journal[k + 1].trade.entry_time
       /\ journal[k + 1].trade.exit_time <= bars_in[Len(bars_in)].timestamp

\* C37: every queued intent is filled on the next bar and every filled
\* position is closed no later than the final bar; once the loop is over
\* (and in the returned result) nothing is pending, nothing is open, and the
\* journal holds as many signal, entry and exit events as trades were recorded.
C37_QueuedFilledClosed ==
    /\ \A k \in 1..Len(journal) :
          /\ journal[k].event = "signal" => SignalFilledNextBar(k)
          /\ journal[k].event = "entry" => EntryClosed(k)
    /\ (pending_intent = NoneRec /\ position = NoneRec)
          => (Len(journal) = 0 \/ journal[Len(journal)].event = "exit")
    /\ loop_i = Len(bars_in)
          => /\ pending_intent = NoneRec
             /\ position = NoneRec
             /\ JournalCount("signal") = Len(trades)
             /\ JournalCount("entry") = Len(trades)
             /\ JournalCount("exit") = Len(trades)
    /\ bt_result # NoneRec => bt_result.trades = trades /\ loop_i = Len(bars_in)

\* run_backtest has returned a trade that was filled on the bar after its
\* signal, held over a bar and closed by the final bar
C37_Witness ==
    /\ bt_result # NoneRec
    /\ Len(bt_result.trades) = 1
    /\ Len(journal) = 3
    /\ journal[3].reason = "end_of_data"
    /\ journal[3].trade.exit_time > journal[3].trade.entry_time
    /\ JournalCount("signal") = 1

\* ... and a READY intent on the final bar, the account being flat, is not queued
C37_WitnessLastBar ==
    /\ bt_result # NoneRec
    /\ position = NoneRec
    /\ pipeline_events # <<>>
    /\ pipeline_events[Len(pipeline_events)].bar_index = Len(bars_in) - 1
    /\ first_ready(pipeline_events[Len(pipeline_events)].intents) # NoneRec


(***************************************************************************)
(* Further properties of the risk engine (checked under SpecRisk).         *)
(***************************************************************************)
\* the stop of a READY intent protects the position at the reference price
StopProtects(intent, current_price) ==
    IF intent.direction = "LONG" THEN intent.stop < current_price
    ELSE intent.stop > current_price

\* C38: the stop of every READY intent lies on the protective side of the
\* reference price: strictly below current_price for a LONG intent, strictly
\* above it for a SHORT intent, for bar-based and ATR-based stops alike.
C38_StopOnProtectiveSide ==
    risk_out # NoneRec =>
      \A k \in 1..Len(risk_out.intents) :
         risk_out.intents[k].status = "READY"
         => StopProtects(risk_out.intents[k], risk_in.current_price)

\* what does hold: an ATR-based stop protects, and so does the 2 % fallback
\* of a trigger that carries no bar_low / bar_high
StopProtectsUnlessBarBased ==
    risk_out # NoneRec =>
      \A k \in 1..Len(risk_out.intents) :
         (/\ risk_out.intents[k].status = "READY"
          /\ \/ (risk_in.config.atr_enabled /\ risk_in.atr_value > 0)
             \/ (risk_in.matches[k].direction = "SHORT"
                 /\ risk_in.matches[k].signals[1].bar_high = NoneVal)
             \/ (risk_in.matches[k].direction # "SHORT"
                 /\ risk_in.matches[k].signals[1].bar_low = NoneVal))
         => StopProtects(risk_out.intents[k], risk_in.current_price)

\* a READY SHORT intent whose bar-based stop, the trigger bar's high, lies
\* below the price at completion
StopOnWrongSide ==
    /\ risk_out # NoneRec
    /\ \E k \in 1..Len(risk_out.intents) :
          /\ risk_out.intents[k].status = "READY"
          /\ risk_out.intents[k].direction = "SHORT"
          /\ risk_out.intents[k].stop = risk_in.matches[k].signals[1].bar_high
          /\ risk_out.intents[k].stop < risk_in.current_price


\* the exit events of the journal that the stop rule produced
StopExits == {k \in 1..Len(journal) : journal[k].event = "exit" /\ journal[k].reason = "stop"}

\* C39: a stop-out never realizes a profit: every trade closed by the stop
\* rule has exit_price <= entry_price for a LONG and exit_price >= entry_price
\* for a SHORT, gaps and stops hit on the entry bar included.
C39_StopOutNeverProfits ==
    \A k \in StopExits :
        /\ journal[k].trade.direction = "LONG"
              => journal[k].trade.exit_price <= journal[k].trade.entry_price
        /\ journal[k].trade.direction = "SHORT"
              => journal[k].trade.exit_price >= journal[k].trade.entry_price

\* what does hold: a stop-out realizes no profit when the fill bar opens on
\* the protective side of the stop the intent was queued with
StopOutLosesUnlessGap ==
    \A k \in StopExits :
        LET t == journal[k].trade
            fill_open == bars_in[t.entry_time + 1].open
            queued_stop == journal[k - 2].intent.stop
        IN  /\ (t.direction = "LONG" /\ fill_open >= queued_stop) => t.pnl <= 0
            /\ (t.direction = "SHORT" /\ fill_open <= queued_stop) => t.pnl <= 0

\* a LONG filled at the open of a bar that opens below its stop is stopped
\* out on that bar, above its entry price
GapStopOutProfits ==
    \E k \in StopExits :
        /\ journal[k].trade.direction = "LONG"
        /\ journal[k].trade.exit_time = journal[k].trade.entry_time
        /\ journal[k].trade.entry_price < journal[k].trade.exit_price
        /\ journal[k].trade.pnl > 0


\* Bar.timestamp.date(): the bars of a history come BarsPerDay to a trading
\* day, so the bar with ordinal ts belongs to day ts \div BarsPerDay
date_of(ts) == ts \div BarsPerDay

\* the trades of a list that were closed on calendar date d
ClosedOn(ts, d) ==
    LET OnDay(t) == date_of(t.exit_time) = d
    IN  SelectSeq(ts, OnDay)

\* the calendar date of the bar the loop is about to process
Today == date_of(bars_in[loop_i + 1].timestamp)

\* the intents of the PipelineResult this step appended that were rejected
\* for the daily loss limit
DailyLossRejects ==
    LET result == pipeline_events'[Len(pipeline_events')]
    IN  {j \in 1..Len(result.intents) :
           result.intents[j].reject_reason = daily_loss_reason(config_in)}

\* the account run_backtest hands to the pipeline in this step, had
\* daily_realized_pnl been the P&L realized on the bar's own date
AccountOfToday ==
    AccountState(cash, IF position' # NoneRec THEN 1 ELSE 0, SumPnl(ClosedOn(trades, Today)))

\* C40: the daily_realized_pnl run_backtest passes to the risk engine at bar
\* i is the sum of the P&L realized on bar i's calendar date only, so that an
\* intent is rejected for the daily loss limit only when the losses of that
\* date reach the limit.
DailyPnlIsTodaysPnl ==
    PipelineRan =>
        /\ daily_pnl = SumPnl(ClosedOn(trades, Today))
        /\ DailyLossRejects # {} => daily_loss_reached(AccountOfToday, config_in)
C40_DailyPnlIsTodaysPnl == [][DailyPnlIsTodaysPnl]_vars

\* what does hold: daily_realized_pnl is the P&L realized since the start of
\* the run, whatever the dates of the bars
DailyPnlIsRunPnl == daily_pnl = SumPnl(trades)

\* an intent has been rejected for the daily loss limit on a bar whose date
\* saw no trade closed: the loss was realized on an earlier date
RejectedForEarlierLoss ==
    /\ pipeline_events # <<>>
    /\ LET result == pipeline_events[Len(pipeline_events)]
       IN  /\ \E j \in 1..Len(result.intents) :
                 result.intents[j].reject_reason = daily_loss_reason(config_in)
           /\ ClosedOn(trades, date_of(bars_in[result.bar_index + 1].timestamp)) = <<>>
    /\ trades # <<>>

====
